---- MODULE Spec2Model ----
(***************************************************************************)
(* Conversation cache (compound key, in-memory LRU backend, Redis backend) *)
(* and the per-user token quota limiter of road-core/service.              *)
(*                                                                         *)
(* Strings are sequences of characters so that concatenation, prefix test  *)
(* and slicing are computed the way the Python code computes them.         *)
(***************************************************************************)
EXTENDS Integers, Sequences, FiniteSets, TLC

\* ------------------------------------------------------------------ bounds
\* largest max_entries the in-memory backend is configured with
MaxEntries == 2
\* longest history a conversation is grown to
MaxHist == 2
\* number of keys the Redis server has room for
MaxStored == 2
\* largest initial_quota a limiter is configured with
MaxQuota == 2
\* largest input_tokens and largest output_tokens of one call
MaxTokens == 1
\* largest amount a quota is topped up to
MaxAvailable == 3
\* most limiters configured for request admission
MaxLimiters == 3
\* most limiters the aggregate consume_tokens debits
MaxDebited == 2
\* largest ingress_max_retries
MaxRetries == 2
\* largest ingress_base_delay
MaxDelay == 2
\* largest file size and largest user_data_max_size
MaxSize == 2
\* most strings a generator yields
MaxItems == 2

\* ------------------------------------------------------------- input sets
Threads == {"t1", "t2"}
\* user ids callers pass: two well-formed ones and one that is only accepted
\* when the user id check is skipped (it contains the separator)
UserIds == {<<"a">>, <<"b">>, <<"a", ":", "b">>}
\* conversation ids callers pass: two well-formed ones and a malformed one
ConvIds == {<<"a">>, <<"b">>, <<"b", ":", "a">>}
\* the topic summary a caller passes along with an entry (Redis backend)
TopicSummaries == {"s1"}
Subjects == {"u1", "u2"}
\* the ids the concurrent requests use
ConcUserIds == {<<"a">>}
ConcConvIds == {<<"a">>, <<"b">>}

NoKey == <<>>

\* ---------------------------------------------------------------- KeyCodec
COMPOUND_KEY_SEPARATOR == <<":">>

\* ols.utils.suid.check_suid: a well-formed identifier (UUID-like); the
\* separator never occurs in a well-formed identifier
check_suid(id) ==
    /\ Len(id) = 1
    /\ \A i \in 1..Len(id) : id[i] \in {"a", "b"}

\* slip: the user id is not checked at all
_check_user_id_Unchecked(user_id) == TRUE

\* Cache._check_user_id raises ValueError exactly when this is FALSE
_check_user_id(user_id) == check_suid(user_id)

\* the skip_user_id_check argument the backends pass along with the user id
UserIdAccepted(user_id, skip_user_id_check) ==
    skip_user_id_check \/ _check_user_id(user_id)

\* slip: the conversation id is not checked at all
_check_conversation_id_Unchecked(conversation_id) == TRUE

\* Cache._check_conversation_id raises ValueError exactly when this is FALSE
_check_conversation_id(conversation_id) == check_suid(conversation_id)

\* construct_key raises ValueError exactly when this is FALSE
KeyAccepted(user_id, conversation_id, skip_user_id_check) ==
    /\ UserIdAccepted(user_id, skip_user_id_check)
    /\ _check_conversation_id(conversation_id)

\* the key construct_key returns for an accepted pair
construct_key(user_id, conversation_id) ==
    user_id \o COMPOUND_KEY_SEPARATOR \o conversation_id

\* prefix = f"{user_id}{Cache.COMPOUND_KEY_SEPARATOR}"
ListPrefix(user_id) == user_id \o COMPOUND_KEY_SEPARATOR

\* key.startswith(prefix)
startswith(key, prefix) ==
    /\ Len(prefix) <= Len(key)
    /\ SubSeq(key, 1, Len(prefix)) = prefix

\* key[len(prefix):]
StripPrefix(key, prefix) == SubSeq(key, Len(prefix) + 1, Len(key))

\* ------------------------------------------------------------- CacheEntry
\* the entry a call passes: its body (the number of the turn within the
\* conversation) and the pair of ids of the call that passes it
CacheEntry(body, user_id, conversation_id) ==
    [body |-> body, by |-> <<user_id, conversation_id>>]

\* CacheEntry.to_dict / CacheEntry.from_dict
to_dict(entry) == [kind |-> "dict", entry |-> entry]
from_dict(d) == d.entry
\* [CacheEntry.from_dict(cache_entry) for cache_entry in value]
FromDicts(value) == [i \in 1..Len(value) |-> from_dict(value[i])]

\* json.dumps(value, cls=MessageEncoder) / json.loads(value, cls=MessageDecoder)
json_dumps(doc) == [kind |-> "json", doc |-> doc]
json_loads(value) == value.doc

NoDoc == [history |-> <<>>, topic_summary |-> ""]

\* -------------------------------------------------- sequence helpers
\* deque.remove(x): drop the first occurrence of x (x is in s)
RECURSIVE RemoveFirst(_, _)
RemoveFirst(s, x) ==
    IF s = <<>> THEN <<>>
    ELSE IF Head(s) = x THEN Tail(s)
    ELSE <<Head(s)>> \o RemoveFirst(Tail(s), x)

InSeq(s, x) == \E i \in 1..Len(s) : s[i] = x


\* ------------------------------------------------------------------- state
VARIABLES
    backend,    \* which cache backend the service was configured with
    capacity,   \* InMemoryCache.capacity
    cache,      \* InMemoryCache.cache: key -> list of entry dicts
    deque,      \* InMemoryCache.deque: keys, most recently used first
    lock,       \* InMemoryCache._lock: the thread holding it, or "free"
    store,      \* the Redis server: key -> JSON document
    redis_up,   \* whether the Redis server answers the commands sent to it
    rlock,      \* RedisCache._lock: the thread holding it, or "free"
    pc,         \* per thread: position inside the call it is executing
    loc,        \* per thread: arguments and local variables of the call
    ret,        \* per thread: outcome of the call it completed last
    audit,      \* whether the two history variables below are recorded
    recency,    \* history: held keys by last completed access, newest first
    appended    \* history: per held key, bodies appended since it was created

\* UserQuotaLimiter and the user_quota_limiter table
VARIABLES
    initial_quota,  \* UserQuotaLimiter.initial_quota
    increase_by,    \* UserQuotaLimiter.increase_by
    quota,          \* table user_quota_limiter: user_id -> available
    qpc,            \* per thread: position inside the limiter call
    qloc,           \* per thread: arguments and local variables of the call
    qret            \* per thread: outcome of the limiter call completed last

\* request admission: check_tokens_available over the configured limiters
VARIABLES
    quota_limiters, \* the configured limiters: None or a list of limiters
    apc,            \* position of check_tokens_available: "idle" or "check"
    asubject,       \* the user_id argument of the call
    checked,        \* ensure_available_quota calls made so far: limiter, subject
    admission       \* outcome of the call completed last

admitVars == <<quota_limiters, apc, asubject, checked, admission>>

\* post-response accounting: the aggregate consume_tokens
VARIABLES
    budget_limiters,     \* the limiters it debits: None or a list of UserQuotaLimiter
    token_usage_history, \* the usage-history recorder, or "None"
    cons                 \* the call: position, arguments, what it has done, outcome

consumeVars == <<budget_limiters, token_usage_history, cons>>

\* UserQuotaLimiter.__init__ as it runs
VARIABLES
    ctor    \* position, the connection it opened, the error it raised

ctorVars == <<ctor>>

\* the user data collector
VARIABLES
    udc_config, \* UserDataCollectorConfig: the fields the upload reads
    disk,       \* the files under data_storage: name -> size
    gather      \* gather_ols_user_data and the upload it makes, as they run

collectorVars == <<udc_config, disk, gather>>

\* the streaming endpoint
VARIABLE stream \* response_processing_wrapper as it runs, and what it yielded

streamVars == <<stream>>

quotaVars == <<initial_quota, increase_by, quota, qpc, qloc, qret>>
cacheVars == <<backend, capacity, cache, deque, lock, store, redis_up, rlock, pc, loc, ret,
               audit, recency, appended>>

\* what the actions of one component leave alone: every other component
exceptCache == <<quotaVars, admitVars, consumeVars, ctorVars, collectorVars, streamVars>>
exceptQuota == <<cacheVars, admitVars, consumeVars, ctorVars, collectorVars, streamVars>>
exceptAdmit == <<cacheVars, quotaVars, consumeVars, ctorVars, collectorVars, streamVars>>
exceptConsume == <<cacheVars, quotaVars, admitVars, ctorVars, collectorVars, streamVars>>
exceptCtor == <<cacheVars, quotaVars, admitVars, consumeVars, collectorVars, streamVars>>
exceptCollector == <<cacheVars, quotaVars, admitVars, consumeVars, ctorVars, streamVars>>
exceptStream == <<cacheVars, quotaVars, admitVars, consumeVars, ctorVars, collectorVars>>

vars == <<backend, capacity, cache, deque, lock, store, redis_up, rlock, pc, loc, ret, audit, recency, appended,
          initial_quota, increase_by, quota, qpc, qloc, qret,
          quota_limiters, apc, asubject, checked, admission,
          budget_limiters, token_usage_history, cons, ctor,
          udc_config, disk, gather, stream>>

NoLoc ==
    [op |-> "none", user |-> <<>>, conv |-> <<>>, skip |-> FALSE,
     key |-> NoKey, value |-> to_dict(CacheEntry(0, <<>>, <<>>)),
     oldest |-> NoKey, fresh |-> FALSE,
     topic |-> "", found |-> FALSE, old |-> NoDoc, keys |-> {}, acc |-> {}]

NoRet ==
    [op |-> "none", user |-> <<>>, conv |-> <<>>, skip |-> FALSE,
     status |-> "none", found |-> FALSE, entries |-> <<>>, ids |-> {},
     evicted |-> NoKey, convs |-> {}, topic |-> ""]

Held(key) == key \in DOMAIN cache

\* dict without one key
DictDel(d, key) == [k \in (DOMAIN d) \ {key} |-> d[k]]
\* dict with d[key] = v
DictSet(d, key, v) == [k \in (DOMAIN d) \cup {key} |-> IF k = key THEN v ELSE d[k]]

Returned(t, op, status, found, entries, ids, evicted) ==
    [op |-> op, user |-> loc[t].user, conv |-> loc[t].conv, skip |-> loc[t].skip,
     status |-> status, found |-> found, entries |-> entries, ids |-> ids,
     evicted |-> evicted, convs |-> {}, topic |-> loc[t].topic]

\* a call that ends before it has touched its local variables
Rejected(op, user_id, conversation_id, skip, status) ==
    [op |-> op, user |-> user_id, conv |-> conversation_id, skip |-> skip,
     status |-> status, found |-> FALSE, entries |-> <<>>, ids |-> {},
     evicted |-> NoKey, convs |-> {}, topic |-> ""]

Args(op, user_id, conversation_id, skip, value) ==
    [NoLoc EXCEPT !.op = op, !.user = user_id, !.conv = conversation_id,
                  !.skip = skip, !.value = value,
                  !.key = construct_key(user_id, conversation_id)]

\* the turn a caller stores next in the conversation under key
NextTurn(key) == IF key \in DOMAIN appended THEN Len(appended[key]) + 1 ELSE 1

\* history bookkeeping, done when a call completes
Without(s, x) == IF InSeq(s, x) THEN RemoveFirst(s, x) ELSE s
Touch(s, key) == <<key>> \o Without(s, key)
Record(new, old) == IF audit THEN new ELSE old

\* ------------------------------------------------ InMemoryCache.get
\* key = construct_key(...); if key not in self.cache: return None
MemGetCall(t, user_id, conversation_id, skip) ==
    /\ backend = "memory"
    /\ pc[t] = "idle"
    /\ IF ~KeyAccepted(user_id, conversation_id, skip)
       THEN /\ ret' = [ret EXCEPT ![t] = Rejected("get", user_id, conversation_id, skip, "ValueError")]
            /\ UNCHANGED <<pc, loc>>
       ELSE IF ~Held(construct_key(user_id, conversation_id))
       THEN /\ ret' = [ret EXCEPT ![t] = Rejected("get", user_id, conversation_id, skip, "ok")]
            /\ UNCHANGED <<pc, loc>>
       ELSE /\ loc' = [loc EXCEPT ![t] = Args("get", user_id, conversation_id, skip, NoLoc.value)]
            /\ pc' = [pc EXCEPT ![t] = "get_remove"]
            /\ ret' = [ret EXCEPT ![t] = NoRet]
    /\ UNCHANGED exceptCache
    /\ UNCHANGED <<audit, redis_up, store, rlock, backend, capacity, cache, deque, lock, recency, appended>>

\* self.deque.remove(key)
MemGetRemove(t) ==
    /\ pc[t] = "get_remove"
    /\ IF InSeq(deque, loc[t].key)
       THEN /\ deque' = RemoveFirst(deque, loc[t].key)
            /\ pc' = [pc EXCEPT ![t] = "get_appendleft"]
            /\ UNCHANGED <<loc, ret>>
       ELSE /\ ret' = [ret EXCEPT ![t] = Returned(t, "get", "ValueError", FALSE, <<>>, {}, NoKey)]
            /\ pc' = [pc EXCEPT ![t] = "idle"]
            /\ loc' = [loc EXCEPT ![t] = NoLoc]
            /\ UNCHANGED deque
    /\ UNCHANGED exceptCache
    /\ UNCHANGED <<audit, redis_up, store, rlock, backend, capacity, cache, lock, recency, appended>>

\* slip: the key that was read goes to the eviction end of the deque
MemGetAppendleft_Append(t) ==
    /\ pc[t] = "get_appendleft"
    /\ deque' = deque \o <<loc[t].key>>
    /\ pc' = [pc EXCEPT ![t] = "get_copy"]
    /\ UNCHANGED exceptCache
    /\ UNCHANGED <<audit, redis_up, store, rlock, backend, capacity, cache, lock, loc, ret, recency, appended>>

\* self.deque.appendleft(key)
MemGetAppendleft(t) ==
    /\ pc[t] = "get_appendleft"
    /\ deque' = <<loc[t].key>> \o deque
    /\ pc' = [pc EXCEPT ![t] = "get_copy"]
    /\ UNCHANGED exceptCache
    /\ UNCHANGED <<audit, redis_up, store, rlock, backend, capacity, cache, lock, loc, ret, recency, appended>>

\* value = self.cache[key].copy(); return [CacheEntry.from_dict(e) for e in value]
MemGetCopy(t) ==
    /\ pc[t] = "get_copy"
    /\ IF Held(loc[t].key)
       THEN /\ ret' = [ret EXCEPT ![t] =
                  Returned(t, "get", "ok", TRUE, FromDicts(cache[loc[t].key]), {}, NoKey)]
            /\ recency' = Record(Touch(recency, loc[t].key), recency)
       ELSE /\ ret' = [ret EXCEPT ![t] = Returned(t, "get", "KeyError", FALSE, <<>>, {}, NoKey)]
            /\ UNCHANGED recency
    /\ pc' = [pc EXCEPT ![t] = "idle"]
    /\ loc' = [loc EXCEPT ![t] = NoLoc]
    /\ UNCHANGED exceptCache
    /\ UNCHANGED <<audit, redis_up, store, rlock, backend, capacity, cache, deque, lock, appended>>

\* --------------------------------------- InMemoryCache.insert_or_append
\* key = construct_key(...); value = cache_entry.to_dict()
MemInsertCall(t, user_id, conversation_id, skip) ==
    /\ backend = "memory"
    /\ pc[t] = "idle"
    /\ Held(construct_key(user_id, conversation_id))
          => Len(cache[construct_key(user_id, conversation_id)]) < MaxHist
    /\ IF ~KeyAccepted(user_id, conversation_id, skip)
       THEN /\ ret' = [ret EXCEPT ![t] = Rejected("insert", user_id, conversation_id, skip, "ValueError")]
            /\ UNCHANGED <<pc, loc>>
       ELSE /\ loc' = [loc EXCEPT ![t] =
                  Args("insert", user_id, conversation_id, skip,
                       to_dict(CacheEntry(NextTurn(construct_key(user_id, conversation_id)),
                                          user_id, conversation_id)))]
            /\ pc' = [pc EXCEPT ![t] = "ins_lock"]
            /\ ret' = [ret EXCEPT ![t] = NoRet]
    /\ UNCHANGED exceptCache
    /\ UNCHANGED <<audit, redis_up, store, rlock, backend, capacity, cache, deque, lock, recency, appended>>

\* with self._lock: if key not in self.cache:
MemInsertLock(t) ==
    /\ pc[t] = "ins_lock"
    /\ lock = "free"
    /\ lock' = t
    /\ loc' = [loc EXCEPT ![t].fresh = ~Held(loc[t].key)]
    /\ pc' = [pc EXCEPT ![t] = IF Held(loc[t].key) THEN "ins_remove" ELSE "ins_len"]
    /\ UNCHANGED exceptCache
    /\ UNCHANGED <<audit, redis_up, store, rlock, backend, capacity, cache, deque, ret, recency, appended>>

\* slip: a new key evicts whenever anything is held
MemInsertLen_NonEmpty(t) ==
    /\ pc[t] = "ins_len"
    /\ pc' = [pc EXCEPT ![t] = IF Len(deque) >= 1 THEN "ins_pop" ELSE "ins_set"]
    /\ UNCHANGED exceptCache
    /\ UNCHANGED <<audit, redis_up, store, rlock, backend, capacity, cache, deque, lock, loc, ret, recency, appended>>

\* if len(self.deque) == self.capacity:
MemInsertLen(t) ==
    /\ pc[t] = "ins_len"
    /\ pc' = [pc EXCEPT ![t] = IF Len(deque) = capacity THEN "ins_pop" ELSE "ins_set"]
    /\ UNCHANGED exceptCache
    /\ UNCHANGED <<audit, redis_up, store, rlock, backend, capacity, cache, deque, lock, loc, ret, recency, appended>>

\* oldest = self.deque.pop()
MemInsertPop(t) ==
    /\ pc[t] = "ins_pop"
    /\ IF deque # <<>>
       THEN /\ deque' = SubSeq(deque, 1, Len(deque) - 1)
            /\ loc' = [loc EXCEPT ![t].oldest = deque[Len(deque)]]
            /\ pc' = [pc EXCEPT ![t] = "ins_del"]
            /\ UNCHANGED <<lock, ret>>
       ELSE /\ ret' = [ret EXCEPT ![t] = Returned(t, "insert", "IndexError", FALSE, <<>>, {}, NoKey)]
            /\ lock' = "free"
            /\ pc' = [pc EXCEPT ![t] = "idle"]
            /\ loc' = [loc EXCEPT ![t] = NoLoc]
            /\ UNCHANGED deque
    /\ UNCHANGED exceptCache
    /\ UNCHANGED <<audit, redis_up, store, rlock, backend, capacity, cache, recency, appended>>

\* del self.cache[oldest]
MemInsertDel(t) ==
    /\ pc[t] = "ins_del"
    /\ IF Held(loc[t].oldest)
       THEN /\ cache' = DictDel(cache, loc[t].oldest)
            /\ pc' = [pc EXCEPT ![t] = "ins_set"]
            /\ UNCHANGED <<lock, loc, ret>>
       ELSE /\ ret' = [ret EXCEPT ![t] = Returned(t, "insert", "KeyError", FALSE, <<>>, {}, NoKey)]
            /\ lock' = "free"
            /\ pc' = [pc EXCEPT ![t] = "idle"]
            /\ loc' = [loc EXCEPT ![t] = NoLoc]
            /\ UNCHANGED cache
    /\ UNCHANGED exceptCache
    /\ UNCHANGED <<audit, redis_up, store, rlock, backend, capacity, deque, recency, appended>>

\* self.cache[key] = [value]
MemInsertSet(t) ==
    /\ pc[t] = "ins_set"
    /\ cache' = DictSet(cache, loc[t].key, <<loc[t].value>>)
    /\ pc' = [pc EXCEPT ![t] = "ins_appendleft"]
    /\ UNCHANGED exceptCache
    /\ UNCHANGED <<audit, redis_up, store, rlock, backend, capacity, deque, lock, loc, ret, recency, appended>>

\* else: self.deque.remove(key)
MemInsertRemove(t) ==
    /\ pc[t] = "ins_remove"
    /\ IF InSeq(deque, loc[t].key)
       THEN /\ deque' = RemoveFirst(deque, loc[t].key)
            /\ pc' = [pc EXCEPT ![t] = "ins_append"]
            /\ UNCHANGED <<lock, loc, ret>>
       ELSE /\ ret' = [ret EXCEPT ![t] = Returned(t, "insert", "ValueError", FALSE, <<>>, {}, NoKey)]
            /\ lock' = "free"
            /\ pc' = [pc EXCEPT ![t] = "idle"]
            /\ loc' = [loc EXCEPT ![t] = NoLoc]
            /\ UNCHANGED deque
    /\ UNCHANGED exceptCache
    /\ UNCHANGED <<audit, redis_up, store, rlock, backend, capacity, cache, recency, appended>>

\* slip: the new entry is put in front of the stored ones
MemInsertAppend_Prepend(t) ==
    /\ pc[t] = "ins_append"
    /\ cache' = DictSet(cache, loc[t].key, <<loc[t].value>> \o cache[loc[t].key])
    /\ pc' = [pc EXCEPT ![t] = "ins_appendleft"]
    /\ UNCHANGED exceptCache
    /\ UNCHANGED <<audit, redis_up, store, rlock, backend, capacity, deque, lock, loc, ret, recency, appended>>

\* old_value = self.cache[key]; old_value.append(value); self.cache[key] = old_value
MemInsertAppend(t) ==
    /\ pc[t] = "ins_append"
    /\ cache' = DictSet(cache, loc[t].key, Append(cache[loc[t].key], loc[t].value))
    /\ pc' = [pc EXCEPT ![t] = "ins_appendleft"]
    /\ UNCHANGED exceptCache
    /\ UNCHANGED <<audit, redis_up, store, rlock, backend, capacity, deque, lock, loc, ret, recency, appended>>

\* self.deque.appendleft(key), and the lock is released
MemInsertAppendleft(t) ==
    /\ pc[t] = "ins_appendleft"
    /\ deque' = <<loc[t].key>> \o deque
    /\ lock' = "free"
    /\ ret' = [ret EXCEPT ![t] = Returned(t, "insert", "ok", FALSE, <<>>, {}, loc[t].oldest)]
    /\ recency' = Record(Touch(Without(recency, loc[t].oldest), loc[t].key), recency)
    /\ appended' =
          LET kept == DictDel(appended, loc[t].oldest)
              body == from_dict(loc[t].value).body
          IN  Record(DictSet(kept, loc[t].key,
                             IF loc[t].key \in DOMAIN kept
                             THEN Append(kept[loc[t].key], body) ELSE <<body>>),
                     appended)
    /\ pc' = [pc EXCEPT ![t] = "idle"]
    /\ loc' = [loc EXCEPT ![t] = NoLoc]
    /\ UNCHANGED exceptCache
    /\ UNCHANGED <<audit, redis_up, store, rlock, backend, capacity, cache>>

\* ------------------------------------------------ InMemoryCache.delete
\* key = construct_key(...)
MemDeleteCall(t, user_id, conversation_id, skip) ==
    /\ backend = "memory"
    /\ pc[t] = "idle"
    /\ IF ~KeyAccepted(user_id, conversation_id, skip)
       THEN /\ ret' = [ret EXCEPT ![t] = Rejected("delete", user_id, conversation_id, skip, "ValueError")]
            /\ UNCHANGED <<pc, loc>>
       ELSE /\ loc' = [loc EXCEPT ![t] = Args("delete", user_id, conversation_id, skip, NoLoc.value)]
            /\ pc' = [pc EXCEPT ![t] = "del_lock"]
            /\ ret' = [ret EXCEPT ![t] = NoRet]
    /\ UNCHANGED exceptCache
    /\ UNCHANGED <<audit, redis_up, store, rlock, backend, capacity, cache, deque, lock, recency, appended>>

\* with self._lock: if key not in self.cache: return False
MemDeleteLock(t) ==
    /\ pc[t] = "del_lock"
    /\ lock = "free"
    /\ IF Held(loc[t].key)
       THEN /\ lock' = t
            /\ pc' = [pc EXCEPT ![t] = "del_del"]
            /\ UNCHANGED <<loc, ret>>
       ELSE /\ ret' = [ret EXCEPT ![t] = Returned(t, "delete", "ok", FALSE, <<>>, {}, NoKey)]
            /\ pc' = [pc EXCEPT ![t] = "idle"]
            /\ loc' = [loc EXCEPT ![t] = NoLoc]
            /\ UNCHANGED lock
    /\ UNCHANGED exceptCache
    /\ UNCHANGED <<audit, redis_up, store, rlock, backend, capacity, cache, deque, recency, appended>>

\* del self.cache[key]
MemDeleteDel(t) ==
    /\ pc[t] = "del_del"
    /\ cache' = DictDel(cache, loc[t].key)
    /\ pc' = [pc EXCEPT ![t] = "del_remove"]
    /\ UNCHANGED exceptCache
    /\ UNCHANGED <<audit, redis_up, store, rlock, backend, capacity, deque, lock, loc, ret, recency, appended>>

\* slip: the key stays in the deque after its record was deleted
MemDeleteRemove_KeepsKey(t) ==
    /\ pc[t] = "del_remove"
    /\ ret' = [ret EXCEPT ![t] = Returned(t, "delete", "ok", TRUE, <<>>, {}, NoKey)]
    /\ UNCHANGED deque
    /\ lock' = "free"
    /\ recency' = Record(Without(recency, loc[t].key), recency)
    /\ appended' = Record(DictDel(appended, loc[t].key), appended)
    /\ pc' = [pc EXCEPT ![t] = "idle"]
    /\ loc' = [loc EXCEPT ![t] = NoLoc]
    /\ UNCHANGED exceptCache
    /\ UNCHANGED <<audit, redis_up, store, rlock, backend, capacity, cache>>

\* self.deque.remove(key); return True
MemDeleteRemove(t) ==
    /\ pc[t] = "del_remove"
    /\ IF InSeq(deque, loc[t].key)
       THEN /\ deque' = RemoveFirst(deque, loc[t].key)
            /\ ret' = [ret EXCEPT ![t] = Returned(t, "delete", "ok", TRUE, <<>>, {}, NoKey)]
       ELSE /\ ret' = [ret EXCEPT ![t] = Returned(t, "delete", "ValueError", FALSE, <<>>, {}, NoKey)]
            /\ UNCHANGED deque
    /\ lock' = "free"
    /\ recency' = Record(Without(recency, loc[t].key), recency)
    /\ appended' = Record(DictDel(appended, loc[t].key), appended)
    /\ pc' = [pc EXCEPT ![t] = "idle"]
    /\ loc' = [loc EXCEPT ![t] = NoLoc]
    /\ UNCHANGED exceptCache
    /\ UNCHANGED <<audit, redis_up, store, rlock, backend, capacity, cache>>

\* -------------------------------------------------- InMemoryCache.list
\* super()._check_user_id(user_id, skip_user_id_check); prefix = ...
MemListCall(t, user_id, skip) ==
    /\ backend = "memory"
    /\ pc[t] = "idle"
    /\ IF ~UserIdAccepted(user_id, skip)
       THEN /\ ret' = [ret EXCEPT ![t] = Rejected("list", user_id, <<>>, skip, "ValueError")]
            /\ UNCHANGED <<pc, loc>>
       ELSE /\ loc' = [loc EXCEPT ![t] = [NoLoc EXCEPT !.op = "list", !.user = user_id, !.skip = skip]]
            /\ pc' = [pc EXCEPT ![t] = "list_lock"]
            /\ ret' = [ret EXCEPT ![t] = NoRet]
    /\ UNCHANGED exceptCache
    /\ UNCHANGED <<audit, redis_up, store, rlock, backend, capacity, cache, deque, lock, recency, appended>>

\* slip: every key of the store is listed, whatever its prefix
MemListScan_Unfiltered(d, user_id) ==
    {StripPrefix(key, ListPrefix(user_id)) : key \in DOMAIN d}

\* the conversation ids the loop over self.cache collects
MemListScan(d, user_id) ==
    {StripPrefix(key, ListPrefix(user_id)) :
        key \in {k \in DOMAIN d : startswith(k, ListPrefix(user_id))}}

\* with self._lock: for key in self.cache: ...; return conversation_ids
MemListLock(t) ==
    /\ pc[t] = "list_lock"
    /\ lock = "free"
    /\ ret' = [ret EXCEPT ![t] =
          Returned(t, "list", "ok", FALSE, <<>>, MemListScan(cache, loc[t].user), NoKey)]
    /\ pc' = [pc EXCEPT ![t] = "idle"]
    /\ loc' = [loc EXCEPT ![t] = NoLoc]
    /\ UNCHANGED exceptCache
    /\ UNCHANGED <<audit, redis_up, store, rlock, backend, capacity, cache, deque, lock, recency, appended>>

\* ------------------------------------------------------ RedisCache.get
Stored(key) == key \in DOMAIN store

\* slip: an error raised by redis_client.get is caught and reported as
\* "no such conversation"
RedisGet_Swallowed(t, user_id, conversation_id, skip) ==
    /\ backend = "redis"
    /\ pc[t] = "idle"
    /\ ret' = [ret EXCEPT ![t] =
          IF ~KeyAccepted(user_id, conversation_id, skip)
          THEN Rejected("get", user_id, conversation_id, skip, "ValueError")
          ELSE IF ~redis_up \/ ~Stored(construct_key(user_id, conversation_id))
          THEN Rejected("get", user_id, conversation_id, skip, "ok")
          ELSE [Rejected("get", user_id, conversation_id, skip, "ok") EXCEPT
                   !.found = TRUE,
                   !.entries = json_loads(store[construct_key(user_id, conversation_id)]).history]]
    /\ UNCHANGED exceptCache
    /\ UNCHANGED <<audit, redis_up, backend, capacity, cache, deque, lock, store, rlock, pc, loc, recency, appended>>

\* key = construct_key(...); value = self.redis_client.get(key);
\* None if absent, else json.loads(value)["history"]; an error raised by
\* redis_client.get is not caught and ends the call
RedisGet(t, user_id, conversation_id, skip) ==
    /\ backend = "redis"
    /\ pc[t] = "idle"
    /\ ret' = [ret EXCEPT ![t] =
          IF ~KeyAccepted(user_id, conversation_id, skip)
          THEN Rejected("get", user_id, conversation_id, skip, "ValueError")
          ELSE IF ~redis_up
          THEN Rejected("get", user_id, conversation_id, skip, "RedisError")
          ELSE IF ~Stored(construct_key(user_id, conversation_id))
          THEN Rejected("get", user_id, conversation_id, skip, "ok")
          ELSE [Rejected("get", user_id, conversation_id, skip, "ok") EXCEPT
                   !.found = TRUE,
                   !.entries = json_loads(store[construct_key(user_id, conversation_id)]).history]]
    /\ UNCHANGED exceptCache
    /\ UNCHANGED <<audit, redis_up, backend, capacity, cache, deque, lock, store, rlock, pc, loc, recency, appended>>

\* a redis_client command raised inside a call in progress: nothing catches
\* the error, the call ends with it, and leaving "with self._lock" releases
\* the lock the thread holds
RedisRaised(t, op) ==
    /\ ret' = [ret EXCEPT ![t] = Returned(t, op, "RedisError", FALSE, <<>>, {}, NoKey)]
    /\ pc' = [pc EXCEPT ![t] = "idle"]
    /\ loc' = [loc EXCEPT ![t] = NoLoc]
    /\ rlock' = IF rlock = t THEN "free" ELSE rlock

\* ------------------------------------------ RedisCache.insert_or_append
\* key = construct_key(...)
RedisInsertCall(t, user_id, conversation_id, topic_summary, skip) ==
    /\ backend = "redis"
    /\ pc[t] = "idle"
    /\ IF Stored(construct_key(user_id, conversation_id))
       THEN Len(json_loads(store[construct_key(user_id, conversation_id)]).history) < MaxHist
       ELSE Cardinality(DOMAIN store) < MaxStored
    /\ IF ~KeyAccepted(user_id, conversation_id, skip)
       THEN /\ ret' = [ret EXCEPT ![t] = Rejected("insert", user_id, conversation_id, skip, "ValueError")]
            /\ UNCHANGED <<pc, loc>>
       ELSE /\ loc' = [loc EXCEPT ![t] =
                  [Args("insert", user_id, conversation_id, skip,
                        to_dict(CacheEntry(NextTurn(construct_key(user_id, conversation_id)),
                                           user_id, conversation_id)))
                   EXCEPT !.topic = topic_summary]]
            /\ pc' = [pc EXCEPT ![t] = "rins_lock"]
            /\ ret' = [ret EXCEPT ![t] = NoRet]
    /\ UNCHANGED exceptCache
    /\ UNCHANGED <<audit, redis_up, backend, capacity, cache, deque, lock, store, rlock, recency, appended>>

\* slip: the read-modify-write starts without taking the lock
RedisInsertLock_NoLock(t) ==
    /\ pc[t] = "rins_lock"
    /\ pc' = [pc EXCEPT ![t] = "rins_read"]
    /\ UNCHANGED exceptCache
    /\ UNCHANGED <<audit, redis_up, backend, capacity, cache, deque, lock, store, rlock, loc, ret, recency, appended>>

\* with self._lock:
RedisInsertLock(t) ==
    /\ pc[t] = "rins_lock"
    /\ rlock = "free"
    /\ rlock' = t
    /\ pc' = [pc EXCEPT ![t] = "rins_read"]
    /\ UNCHANGED exceptCache
    /\ UNCHANGED <<audit, redis_up, backend, capacity, cache, deque, lock, store, loc, ret, recency, appended>>

\* old_value = self.get_db_entry(user_id, conversation_id, skip_user_id_check)
RedisInsertRead(t) ==
    /\ pc[t] = "rins_read"
    /\ IF ~redis_up
       THEN RedisRaised(t, "insert")
       ELSE /\ loc' = [loc EXCEPT ![t].found = Stored(loc[t].key),
                                  ![t].old = IF Stored(loc[t].key)
                                             THEN json_loads(store[loc[t].key]) ELSE NoDoc]
            /\ pc' = [pc EXCEPT ![t] = "rins_write"]
            /\ UNCHANGED <<rlock, ret>>
    /\ UNCHANGED exceptCache
    /\ UNCHANGED <<audit, redis_up, backend, capacity, cache, deque, lock, store, recency, appended>>

\* slip: the topic summary of the call replaces the stored one
RedisNewDoc_LastTopic(found, old_value, cache_entry, topic_summary) ==
    IF found
    THEN [old_value EXCEPT !.history = Append(@, cache_entry),
                           !.topic_summary = topic_summary]
    ELSE [history |-> <<cache_entry>>, topic_summary |-> topic_summary]

\* the document insert_or_append writes back
RedisNewDoc(found, old_value, cache_entry, topic_summary) ==
    IF found
    THEN [old_value EXCEPT !.history = Append(@, cache_entry)]
    ELSE [history |-> <<cache_entry>>, topic_summary |-> topic_summary]

\* self.redis_client.set(key, json.dumps(old_value)), and the lock is released
RedisInsertWrite(t) ==
    /\ pc[t] = "rins_write"
    /\ IF ~redis_up
       THEN /\ RedisRaised(t, "insert")
            /\ UNCHANGED <<store, appended>>
       ELSE /\ store' = DictSet(store, loc[t].key,
                                json_dumps(RedisNewDoc(loc[t].found, loc[t].old,
                                                       from_dict(loc[t].value), loc[t].topic)))
            /\ rlock' = "free"
            /\ ret' = [ret EXCEPT ![t] = Returned(t, "insert", "ok", FALSE, <<>>, {}, NoKey)]
            /\ appended' =
                  LET body == from_dict(loc[t].value).body
                  IN  Record(DictSet(appended, loc[t].key,
                                     IF loc[t].key \in DOMAIN appended
                                     THEN Append(appended[loc[t].key], body) ELSE <<body>>),
                             appended)
            /\ pc' = [pc EXCEPT ![t] = "idle"]
            /\ loc' = [loc EXCEPT ![t] = NoLoc]
    /\ UNCHANGED exceptCache
    /\ UNCHANGED <<audit, redis_up, backend, capacity, cache, deque, lock, recency>>

\* --------------------------------------------------- RedisCache.delete
\* key = construct_key(...); return bool(self.redis_client.delete(key))
RedisDelete(t, user_id, conversation_id, skip) ==
    /\ backend = "redis"
    /\ pc[t] = "idle"
    /\ IF ~KeyAccepted(user_id, conversation_id, skip)
       THEN /\ ret' = [ret EXCEPT ![t] = Rejected("delete", user_id, conversation_id, skip, "ValueError")]
            /\ UNCHANGED <<store, appended>>
       ELSE IF ~redis_up
       THEN /\ ret' = [ret EXCEPT ![t] = Rejected("delete", user_id, conversation_id, skip, "RedisError")]
            /\ UNCHANGED <<store, appended>>
       ELSE /\ ret' = [ret EXCEPT ![t] =
                  [Rejected("delete", user_id, conversation_id, skip, "ok") EXCEPT
                      !.found = Stored(construct_key(user_id, conversation_id))]]
            /\ store' = DictDel(store, construct_key(user_id, conversation_id))
            /\ appended' = Record(DictDel(appended, construct_key(user_id, conversation_id)),
                                  appended)
    /\ UNCHANGED exceptCache
    /\ UNCHANGED <<audit, redis_up, backend, capacity, cache, deque, lock, rlock, pc, loc, recency>>

\* ----------------------------------------------------- RedisCache.list
\* _check_user_id(user_id, skip); keys = self.redis_client.keys(f"{prefix}*")
RedisListCall(t, user_id, skip) ==
    /\ backend = "redis"
    /\ pc[t] = "idle"
    /\ IF ~UserIdAccepted(user_id, skip)
       THEN /\ ret' = [ret EXCEPT ![t] = Rejected("list", user_id, <<>>, skip, "ValueError")]
            /\ UNCHANGED <<pc, loc>>
       ELSE IF ~redis_up
       THEN /\ ret' = [ret EXCEPT ![t] = Rejected("list", user_id, <<>>, skip, "RedisError")]
            /\ UNCHANGED <<pc, loc>>
       ELSE /\ loc' = [loc EXCEPT ![t] =
                  [NoLoc EXCEPT !.op = "list", !.user = user_id, !.skip = skip,
                                !.keys = {k \in DOMAIN store : startswith(k, ListPrefix(user_id))}]]
            /\ pc' = [pc EXCEPT ![t] = "rlist_fetch"]
            /\ ret' = [ret EXCEPT ![t] = NoRet]
    /\ UNCHANGED exceptCache
    /\ UNCHANGED <<audit, redis_up, backend, capacity, cache, deque, lock, store, rlock, recency, appended>>

\* one round of: for key in keys: conversation_id = key[len(prefix):];
\* conversation_data = self.get_db_entry(user_id, conversation_id, skip); ...
RedisListFetchKey(t, key) ==
    LET conversation_id == StripPrefix(key, ListPrefix(loc[t].user))
        k == construct_key(loc[t].user, conversation_id)
    IN  IF ~KeyAccepted(loc[t].user, conversation_id, loc[t].skip)
        THEN /\ ret' = [ret EXCEPT ![t] = Returned(t, "list", "ValueError", FALSE, <<>>, {}, NoKey)]
             /\ pc' = [pc EXCEPT ![t] = "idle"]
             /\ loc' = [loc EXCEPT ![t] = NoLoc]
        ELSE IF ~redis_up
        THEN /\ ret' = [ret EXCEPT ![t] = Returned(t, "list", "RedisError", FALSE, <<>>, {}, NoKey)]
             /\ pc' = [pc EXCEPT ![t] = "idle"]
             /\ loc' = [loc EXCEPT ![t] = NoLoc]
        ELSE /\ loc' = [loc EXCEPT
                  ![t].keys = @ \ {key},
                  ![t].acc = IF Stored(k)
                             THEN @ \cup {[conversation_id |-> conversation_id,
                                           topic_summary |-> json_loads(store[k]).topic_summary]}
                             ELSE @]
             /\ UNCHANGED <<pc, ret>>

\* the loop of list, and its return once every key was fetched
RedisListFetch(t) ==
    /\ pc[t] = "rlist_fetch"
    /\ IF loc[t].keys = {}
       THEN /\ ret' = [ret EXCEPT ![t] =
                  [Returned(t, "list", "ok", FALSE, <<>>, {}, NoKey) EXCEPT !.convs = loc[t].acc]]
            /\ pc' = [pc EXCEPT ![t] = "idle"]
            /\ loc' = [loc EXCEPT ![t] = NoLoc]
       ELSE \E key \in loc[t].keys : RedisListFetchKey(t, key)
    /\ UNCHANGED exceptCache
    /\ UNCHANGED <<audit, redis_up, backend, capacity, cache, deque, lock, store, rlock, recency, appended>>

\* ------------------------------------------------------ QuotaExceedError
\* QuotaExceedError(*args): __init__(self, subject_id, subject_type, available,
\* needed) binds four positional arguments; any other number is a TypeError
QuotaExceedError(args) ==
    IF Len(args) = 4
    THEN [type |-> "QuotaExceedError", subject_id |-> args[1],
          available |-> args[3], needed |-> args[4]]
    ELSE [type |-> "TypeError", subject_id |-> "", available |-> 0, needed |-> 0]

NoError == [type |-> "none", subject_id |-> "", available |-> 0, needed |-> 0]
UniqueViolation == [NoError EXCEPT !.type = "UniqueViolation"]

NoQLoc == [op |-> "none", user_id |-> "", to_be_consumed |-> 0, available |-> 0]
NoQRet == [op |-> "none", user_id |-> "", to_be_consumed |-> 0,
           error |-> NoError, value |-> 0]

QReturned(t, error, value) ==
    [op |-> qloc[t].op, user_id |-> qloc[t].user_id,
     to_be_consumed |-> qloc[t].to_be_consumed, error |-> error, value |-> value]

HasRow(user_id) == user_id \in DOMAIN quota

\* ----------------------------------------- UserQuotaLimiter.available_quota
QAvailableCall(t, user_id) ==
    /\ qpc[t] = "idle"
    /\ qloc' = [qloc EXCEPT ![t] = [NoQLoc EXCEPT !.op = "available_quota", !.user_id = user_id]]
    /\ qpc' = [qpc EXCEPT ![t] = "q_select"]
    /\ qret' = [qret EXCEPT ![t] = NoQRet]
    /\ UNCHANGED <<initial_quota, increase_by, quota>>
    /\ UNCHANGED exceptQuota

\* ------------------------------------------ UserQuotaLimiter.consume_tokens
\* to_be_consumed = input_tokens + output_tokens; available = self.available_quota(user_id)
QConsumeCall(t, input_tokens, output_tokens, user_id) ==
    /\ qpc[t] = "idle"
    /\ qloc' = [qloc EXCEPT ![t] =
          [NoQLoc EXCEPT !.op = "consume_tokens", !.user_id = user_id,
                         !.to_be_consumed = input_tokens + output_tokens]]
    /\ qpc' = [qpc EXCEPT ![t] = "q_select"]
    /\ qret' = [qret EXCEPT ![t] = NoQRet]
    /\ UNCHANGED <<initial_quota, increase_by, quota>>
    /\ UNCHANGED exceptQuota

\* what the caller of available_quota does with the value it returns:
\* available_quota itself returns it; consume_tokens checks it against
\* to_be_consumed and raises QuotaExceedError(user_id, available, to_be_consumed)
QGotAvailable(t, available) ==
    IF qloc[t].op = "available_quota"
    THEN /\ qret' = [qret EXCEPT ![t] = QReturned(t, NoError, available)]
         /\ qpc' = [qpc EXCEPT ![t] = "idle"]
         /\ qloc' = [qloc EXCEPT ![t] = NoQLoc]
    ELSE IF available < qloc[t].to_be_consumed
    THEN /\ qret' = [qret EXCEPT ![t] =
               QReturned(t, QuotaExceedError(<<qloc[t].user_id, available,
                                               qloc[t].to_be_consumed>>), 0)]
         /\ qpc' = [qpc EXCEPT ![t] = "idle"]
         /\ qloc' = [qloc EXCEPT ![t] = NoQLoc]
    ELSE /\ qloc' = [qloc EXCEPT ![t].available = available]
         /\ qpc' = [qpc EXCEPT ![t] = "q_update"]
         /\ UNCHANGED qret

\* cursor.execute(SELECT_QUOTA_FOR_USER); value = cursor.fetchone()
QSelect(t) ==
    /\ qpc[t] = "q_select"
    /\ IF HasRow(qloc[t].user_id)
       THEN QGotAvailable(t, quota[qloc[t].user_id])
       ELSE /\ qpc' = [qpc EXCEPT ![t] = "q_init"]
            /\ UNCHANGED <<qloc, qret>>
    /\ UNCHANGED <<initial_quota, increase_by, quota>>
    /\ UNCHANGED exceptQuota

\* slip: the first access returns the initial quota without storing a row
QInit_NoRow(t) ==
    /\ qpc[t] = "q_init"
    /\ UNCHANGED quota
    /\ QGotAvailable(t, initial_quota)
    /\ UNCHANGED <<initial_quota, increase_by>>
    /\ UNCHANGED exceptQuota

\* self._init_quota(user_id): INSERT INTO user_quota_limiter (the table has
\* PRIMARY KEY(user_id)); return self.initial_quota
QInit(t) ==
    /\ qpc[t] = "q_init"
    /\ IF HasRow(qloc[t].user_id)
       THEN /\ qret' = [qret EXCEPT ![t] = QReturned(t, UniqueViolation, 0)]
            /\ qpc' = [qpc EXCEPT ![t] = "idle"]
            /\ qloc' = [qloc EXCEPT ![t] = NoQLoc]
            /\ UNCHANGED quota
       ELSE /\ quota' = DictSet(quota, qloc[t].user_id, initial_quota)
            /\ QGotAvailable(t, initial_quota)
    /\ UNCHANGED <<initial_quota, increase_by>>
    /\ UNCHANGED exceptQuota

\* slip: the UPDATE has no WHERE clause and touches every row
UPDATE_AVAILABLE_QUOTA_FOR_USER_AllRows(table, amount, user_id) ==
    [u \in DOMAIN table |-> table[u] + amount]

\* UPDATE user_quota_limiter SET available=available+%s WHERE user_id=%s
UPDATE_AVAILABLE_QUOTA_FOR_USER(table, amount, user_id) ==
    [u \in DOMAIN table |-> IF u = user_id THEN table[u] + amount ELSE table[u]]

\* slip: the UPDATE has no WHERE clause and resets every row
SET_AVAILABLE_QUOTA_FOR_USER_AllRows(table, amount, user_id) ==
    [u \in DOMAIN table |-> amount]

\* UPDATE user_quota_limiter SET available=%s WHERE user_id=%s
SET_AVAILABLE_QUOTA_FOR_USER(table, amount, user_id) ==
    [u \in DOMAIN table |-> IF u = user_id THEN amount ELSE table[u]]

\* cursor.execute(UPDATE_AVAILABLE_QUOTA_FOR_USER, (-to_be_consumed, ...))
QUpdate(t) ==
    /\ qpc[t] = "q_update"
    /\ quota' = UPDATE_AVAILABLE_QUOTA_FOR_USER(quota, -qloc[t].to_be_consumed, qloc[t].user_id)
    /\ qret' = [qret EXCEPT ![t] = QReturned(t, NoError, 0)]
    /\ qpc' = [qpc EXCEPT ![t] = "idle"]
    /\ qloc' = [qloc EXCEPT ![t] = NoQLoc]
    /\ UNCHANGED <<initial_quota, increase_by>>
    /\ UNCHANGED exceptQuota

\* -------------------------------------------- UserQuotaLimiter.revoke_quota
QRevoke(t, user_id) ==
    /\ qpc[t] = "idle"
    /\ quota' = SET_AVAILABLE_QUOTA_FOR_USER(quota, initial_quota, user_id)
    /\ qret' = [qret EXCEPT ![t] = [NoQRet EXCEPT !.op = "revoke_quota", !.user_id = user_id]]
    /\ UNCHANGED <<initial_quota, increase_by, qpc, qloc>>
    /\ UNCHANGED exceptQuota

\* ------------------------------------------ UserQuotaLimiter.increase_quota
QIncrease(t, user_id) ==
    /\ qpc[t] = "idle"
    /\ HasRow(user_id) => quota[user_id] + increase_by <= MaxAvailable
    /\ quota' = UPDATE_AVAILABLE_QUOTA_FOR_USER(quota, increase_by, user_id)
    /\ qret' = [qret EXCEPT ![t] = [NoQRet EXCEPT !.op = "increase_quota", !.user_id = user_id]]
    /\ UNCHANGED <<initial_quota, increase_by, qpc, qloc>>
    /\ UNCHANGED exceptQuota

\* ------------------------------------------------------- specifications
\* -------------------------------------------- check_tokens_available
\* a limiter as check_tokens_available sees it: ensure_available_quota either
\* returns or raises an exception carrying a message
MockQuotaLimiter(raises, message) == [raises |-> raises, message |-> message]
LimiterKinds ==
    {MockQuotaLimiter(FALSE, ""), MockQuotaLimiter(TRUE, "Raised exception"),
     MockQuotaLimiter(TRUE, "Quota exhausted")}

\* quota_limiters = None, and quota_limiters = [...]
None == [configured |-> FALSE, list |-> <<>>]
LimiterList(list) == [configured |-> TRUE, list |-> list]

RECURSIVE ListsUpTo(_)
ListsUpTo(n) ==
    IF n = 0 THEN {<<>>}
    ELSE ListsUpTo(n - 1) \cup
         {Append(l, k) : l \in {x \in ListsUpTo(n - 1) : Len(x) = n - 1}, k \in LimiterKinds}

LimiterConfigs == {None} \cup {LimiterList(l) : l \in ListsUpTo(MaxLimiters)}

\* the limiters the loop of check_tokens_available goes through
Configured(limiters) == IF limiters.configured THEN limiters.list ELSE <<>>

NoAdmission == [kind |-> "none", status_code |-> 0, response |-> "", cause |-> ""]
Admitted == [NoAdmission EXCEPT !.kind = "returned"]
\* HTTPException(status_code=500, detail={"response": ..., "cause": ...})
HTTPException(status_code, response, cause) ==
    [kind |-> "HTTPException", status_code |-> status_code,
     response |-> response, cause |-> cause]

InitAdmission(configs) ==
    /\ quota_limiters \in configs
    /\ apc = "idle"
    /\ asubject = ""
    /\ checked = <<>>
    /\ admission = NoAdmission

\* check_tokens_available(quota_limiters, user_id) is called
CheckCall(user_id) ==
    /\ apc = "idle"
    /\ apc' = "check"
    /\ asubject' = user_id
    /\ checked' = <<>>
    /\ admission' = NoAdmission
    /\ UNCHANGED quota_limiters
    /\ UNCHANGED exceptAdmit

\* slip: a limiter that raises is logged and the loop goes on
CheckLimiter_GoesOn ==
    /\ apc = "check"
    /\ Len(checked) < Len(Configured(quota_limiters))
    /\ checked' = Append(checked, [limiter |-> Len(checked) + 1, subject_id |-> asubject])
    /\ UNCHANGED <<quota_limiters, apc, asubject, admission>>
    /\ UNCHANGED exceptAdmit

\* one round of the loop: quota_limiter.ensure_available_quota(subject_id=user_id);
\* an exception it raises is wrapped into the HTTPException that ends the call
CheckLimiter ==
    /\ apc = "check"
    /\ Len(checked) < Len(Configured(quota_limiters))
    /\ checked' = Append(checked, [limiter |-> Len(checked) + 1, subject_id |-> asubject])
    /\ IF Configured(quota_limiters)[Len(checked) + 1].raises
       THEN /\ admission' = HTTPException(500, "The quota has been exceeded",
                                          Configured(quota_limiters)[Len(checked) + 1].message)
            /\ apc' = "idle"
       ELSE UNCHANGED <<apc, admission>>
    /\ UNCHANGED <<quota_limiters, asubject>>
    /\ UNCHANGED exceptAdmit

\* no limiter is left: the call returns
CheckReturn ==
    /\ apc = "check"
    /\ Len(checked) = Len(Configured(quota_limiters))
    /\ admission' = Admitted
    /\ apc' = "idle"
    /\ UNCHANGED <<quota_limiters, asubject, checked>>
    /\ UNCHANGED exceptAdmit

\* ------------------------------------------- aggregate consume_tokens
\* a UserQuotaLimiter with its own table
UserQuotaLimiter(initial) == [initial_quota |-> initial, quota |-> <<>>]

\* limiter.available_quota(user_id): the stored amount, or the initial quota
\* after _init_quota has stored it
available_quota(limiter, user_id) ==
    IF user_id \in DOMAIN limiter.quota
    THEN [value |-> limiter.quota[user_id], limiter |-> limiter]
    ELSE [value |-> limiter.initial_quota,
          limiter |-> [limiter EXCEPT !.quota = DictSet(@, user_id, limiter.initial_quota)]]

\* slip: only the input tokens are debited
consume_tokens_InputOnly(limiter, input_tokens, output_tokens, user_id) ==
    LET to_be_consumed == input_tokens + output_tokens
        got == available_quota(limiter, user_id)
    IN  IF got.value < to_be_consumed
        THEN [error |-> QuotaExceedError(<<user_id, got.value, to_be_consumed>>),
              limiter |-> got.limiter]
        ELSE [error |-> NoError,
              limiter |-> [got.limiter EXCEPT !.quota =
                              UPDATE_AVAILABLE_QUOTA_FOR_USER(@, -input_tokens, user_id)]]

\* limiter.consume_tokens(input_tokens, output_tokens, user_id): the error it
\* raises, if any, and the limiter afterwards
consume_tokens(limiter, input_tokens, output_tokens, user_id) ==
    LET to_be_consumed == input_tokens + output_tokens
        got == available_quota(limiter, user_id)
    IN  IF got.value < to_be_consumed
        THEN [error |-> QuotaExceedError(<<user_id, got.value, to_be_consumed>>),
              limiter |-> got.limiter]
        ELSE [error |-> NoError,
              limiter |-> [got.limiter EXCEPT !.quota =
                              UPDATE_AVAILABLE_QUOTA_FOR_USER(@, -to_be_consumed, user_id)]]

RECURSIVE LimiterListsUpTo(_)
LimiterListsUpTo(n) ==
    IF n = 0 THEN {<<>>}
    ELSE LimiterListsUpTo(n - 1) \cup
         {Append(l, UserQuotaLimiter(q)) :
             l \in {x \in LimiterListsUpTo(n - 1) : Len(x) = n - 1}, q \in 1..MaxQuota}

DebitedLimiters == {None} \cup {LimiterList(l) : l \in LimiterListsUpTo(MaxDebited)}
Recorders == {"None", "TokenUsageHistory"}
Providers == {"provider"}
Models == {"model"}

NoArgs == [user_id |-> "", input_tokens |-> 0, output_tokens |-> 0,
           provider |-> "", model |-> ""]
NoCons == [pc |-> "idle", args |-> NoArgs, before |-> None,
           debits |-> <<>>, recorded |-> <<>>, outcome |-> "none", error |-> NoError]

InitConsume(configs, recorders) ==
    /\ budget_limiters \in configs
    /\ token_usage_history \in recorders
    /\ cons = NoCons

\* consume_tokens(quota_limiters, token_usage_history, user_id, input_tokens,
\* output_tokens, provider, model) is called
ConsumeCall(user_id, input_tokens, output_tokens, provider, model) ==
    /\ cons.pc = "idle"
    /\ cons' = [NoCons EXCEPT
          !.pc = "record",
          !.args = [user_id |-> user_id, input_tokens |-> input_tokens,
                    output_tokens |-> output_tokens,
                    provider |-> provider, model |-> model],
          !.before = budget_limiters]
    /\ UNCHANGED <<budget_limiters, token_usage_history>>
    /\ UNCHANGED exceptConsume

\* if token_usage_history is not None: token_usage_history.consume_tokens(...)
ConsumeRecord ==
    /\ cons.pc = "record"
    /\ cons' = [cons EXCEPT
          !.pc = "debit",
          !.recorded = IF token_usage_history = "None" THEN @ ELSE Append(@, cons.args)]
    /\ UNCHANGED <<budget_limiters, token_usage_history>>
    /\ UNCHANGED exceptConsume

\* what one round of the loop leaves behind: the limiter as its consume_tokens
\* left it, and either one more debit or the error that ends the call
Debited(result) ==
    LET i == Len(cons.debits) + 1
    IN  /\ budget_limiters' = [budget_limiters EXCEPT !.list[i] = result.limiter]
        /\ cons' = IF result.error = NoError
                   THEN [cons EXCEPT !.debits =
                            Append(@, [limiter |-> i, user_id |-> cons.args.user_id,
                                       input_tokens |-> cons.args.input_tokens,
                                       output_tokens |-> cons.args.output_tokens])]
                   ELSE [cons EXCEPT !.pc = "idle", !.outcome = "raised",
                                     !.error = result.error]

\* slip: when a limiter rejects, the debits made so far are undone
ConsumeDebit_RollsBack ==
    /\ cons.pc = "debit"
    /\ Len(cons.debits) < Len(Configured(budget_limiters))
    /\ LET result == consume_tokens(Configured(budget_limiters)[Len(cons.debits) + 1],
                                    cons.args.input_tokens, cons.args.output_tokens,
                                    cons.args.user_id)
       IN  IF result.error = NoError
           THEN Debited(result)
           ELSE /\ budget_limiters' = cons.before
                /\ cons' = [cons EXCEPT !.pc = "idle", !.outcome = "raised",
                                        !.error = result.error]
    /\ UNCHANGED token_usage_history
    /\ UNCHANGED exceptConsume

\* one round of: for quota_limiter in quota_limiters:
\*     quota_limiter.consume_tokens(input_tokens, output_tokens, user_id)
ConsumeDebit ==
    /\ cons.pc = "debit"
    /\ Len(cons.debits) < Len(Configured(budget_limiters))
    /\ Debited(consume_tokens(Configured(budget_limiters)[Len(cons.debits) + 1],
                              cons.args.input_tokens, cons.args.output_tokens,
                              cons.args.user_id))
    /\ UNCHANGED token_usage_history
    /\ UNCHANGED exceptConsume

\* no limiter is left (or quota_limiters is None): the call returns
ConsumeReturn ==
    /\ cons.pc = "debit"
    /\ Len(cons.debits) = Len(Configured(budget_limiters))
    /\ cons' = [cons EXCEPT !.pc = "idle", !.outcome = "returned"]
    /\ UNCHANGED <<budget_limiters, token_usage_history>>
    /\ UNCHANGED exceptConsume

\* ----------------------------------------------- UserQuotaLimiter.__init__
\* what a call to psycopg2 may raise instead of returning
DbErrors == {"OperationalError", "ProgrammingError", "Exception during PostgreSQL storage."}
Outcomes == {"ok"} \cup DbErrors

NotConstructed ==
    [pc |-> "none", initial_quota |-> 0, increase_by |-> 0,
     connection |-> "none", closes |-> 0, table |-> FALSE,
     failed |-> "none", caught |-> "none", raised |-> "none"]
\* the limiter the other components work with: constructed, connected
Constructed == [NotConstructed EXCEPT !.pc = "done", !.connection = "open", !.table = TRUE]

InitCtor(states) == ctor \in states

\* UserQuotaLimiter(config, initial_quota, increase_by):
\* self.initial_quota = initial_quota; self.increase_by = increase_by
CtorCall(initial, increase) ==
    /\ ctor.pc \in {"none", "done", "raised"}
    /\ ctor' = [NotConstructed EXCEPT !.pc = "connect",
                                      !.initial_quota = initial, !.increase_by = increase]
    /\ UNCHANGED exceptCtor

\* self.connection = psycopg2.connect(...); self.connection.autocommit = True;
\* an error of connect is raised outside the try block
CtorConnect(outcome) ==
    /\ ctor.pc = "connect"
    /\ ctor' = IF outcome = "ok"
               THEN [ctor EXCEPT !.pc = "cursor", !.connection = "open"]
               ELSE [ctor EXCEPT !.pc = "raised", !.failed = "connect", !.raised = outcome]
    /\ UNCHANGED exceptCtor

\* a statement of _initialize_tables, called inside try: the constructor
\* moves on, or the error raised is caught by "except Exception as e"
Tried(outcome, next) ==
    IF outcome = "ok"
    THEN [ctor EXCEPT !.pc = next]
    ELSE [ctor EXCEPT !.pc = "except", !.failed = ctor.pc, !.caught = outcome]

\* cursor = self.connection.cursor()
CtorCursor(outcome) ==
    /\ ctor.pc = "cursor"
    /\ ctor' = Tried(outcome, "execute")
    /\ UNCHANGED exceptCtor

\* cursor.execute(UserQuotaLimiter.CREATE_QUOTA_TABLE)
CtorExecute(outcome) ==
    /\ ctor.pc = "execute"
    /\ ctor' = [Tried(outcome, "cursor_close") EXCEPT !.table = (outcome = "ok")]
    /\ UNCHANGED exceptCtor

\* cursor.close()
CtorCursorClose(outcome) ==
    /\ ctor.pc = "cursor_close"
    /\ ctor' = Tried(outcome, "commit")
    /\ UNCHANGED exceptCtor

\* self.connection.commit(), after which __init__ returns
CtorCommit(outcome) ==
    /\ ctor.pc = "commit"
    /\ ctor' = Tried(outcome, "done")
    /\ UNCHANGED exceptCtor

\* slip: the error is logged and the constructor returns the object
CtorExcept_Swallowed ==
    /\ ctor.pc = "except"
    /\ ctor' = [ctor EXCEPT !.pc = "done", !.connection = "closed", !.closes = @ + 1]
    /\ UNCHANGED exceptCtor

\* except Exception as e: self.connection.close(); logger.exception(...); raise
CtorExcept ==
    /\ ctor.pc = "except"
    /\ ctor' = [ctor EXCEPT !.pc = "raised", !.connection = "closed",
                            !.closes = @ + 1, !.raised = ctor.caught]
    /\ UNCHANGED exceptCtor

\* ------------------------------------------------- user data collector
\* the files collect_ols_data_from finds, in the order it lists them
FileNames == <<"f1", "f2">>

\* chunk_data(data, chunk_max_size), data being the files with their sizes;
\* chunk and chunk_size are the chunk being filled
RECURSIVE ChunkFrom(_, _, _, _, _)
ChunkFrom(data, size, chunk_max_size, chunk, chunk_size) ==
    IF data = <<>>
    THEN IF chunk # <<>> THEN <<chunk>> ELSE <<>>
    ELSE LET file == Head(data)
             file_size == size[file]
         IN  IF chunk_max_size < chunk_size + file_size \/ file_size > chunk_max_size
             THEN (IF chunk # <<>> THEN <<chunk>> ELSE <<>>)
                  \o ChunkFrom(Tail(data), size, chunk_max_size, <<file>>, file_size)
             ELSE ChunkFrom(Tail(data), size, chunk_max_size,
                            Append(chunk, file), chunk_size + file_size)

chunk_data(data, size, chunk_max_size) == ChunkFrom(data, size, chunk_max_size, <<>>, 0)

\* collect_ols_data_from(location): the files on disk
RECURSIVE Present(_, _)
Present(names, files) ==
    IF names = <<>> THEN <<>>
    ELSE (IF Head(names) \in DOMAIN files THEN <<Head(names)>> ELSE <<>>)
         \o Present(Tail(names), files)

\* requests.codes.accepted
accepted == 202
\* the local variable response: not assigned yet, or the response of s.post
Unbound == <<>>
Response(status_code) == <<status_code>>
\* what one upload attempt runs into
AttemptOutcomes ==
    {"accepted", "error response", "ClusterIDNotFoundError",
     "ClusterPullSecretNotFoundError", "ConnectionError"}

NoGather ==
    [pc |-> "idle", chunks |-> <<>>, i |-> 0,
     retries |-> 0, response |-> Unbound, was_accepted |-> FALSE, slept |-> <<>>,
     outcome |-> "none"]

InitCollector(retries, delays, sizes) ==
    /\ udc_config \in [ingress_max_retries : retries, ingress_base_delay : delays,
                       user_data_max_size : sizes]
    /\ disk \in [{FileNames[n] : n \in 1..Len(FileNames)} -> sizes]
    /\ gather = NoGather

\* gather_ols_user_data(udc_config): collected_files = collect_ols_data_from(...);
\* data_chunks = chunk_data(collected_files, udc_config.user_data_max_size)
GatherCall ==
    /\ gather.pc \in {"idle", "returned", "raised"}
    /\ gather' = [NoGather EXCEPT
          !.pc = "chunk",
          !.chunks = chunk_data(Present(FileNames, disk), disk, udc_config.user_data_max_size),
          !.i = 1]
    /\ UNCHANGED <<udc_config, disk>>
    /\ UNCHANGED exceptCollector

\* for i, data_chunk in enumerate(data_chunks): tarball = ...;
\* upload_data_to_ingress(tarball, udc_config) is entered with retries = 0;
\* after the last chunk gather_ols_user_data returns
GatherChunk ==
    /\ gather.pc = "chunk"
    /\ gather' = IF gather.i <= Len(gather.chunks)
                 THEN [gather EXCEPT !.pc = "while", !.retries = 0, !.response = Unbound,
                                     !.was_accepted = FALSE, !.slept = <<>>]
                 ELSE [gather EXCEPT !.pc = "returned", !.outcome = "returned"]
    /\ UNCHANGED <<udc_config, disk>>
    /\ UNCHANGED exceptCollector

\* while retries < udc_config.ingress_max_retries:
UploadWhile ==
    /\ gather.pc = "while"
    /\ gather' = [gather EXCEPT !.pc = IF gather.retries < udc_config.ingress_max_retries
                                       THEN "try" ELSE "return"]
    /\ UNCHANGED <<udc_config, disk>>
    /\ UNCHANGED exceptCollector

\* what "except Exception as e" does: retries += 1;
\* delay = udc_config.ingress_base_delay * 2**retries; time.sleep(delay)
Failed(g) ==
    [g EXCEPT !.pc = "while", !.retries = @ + 1,
              !.slept = Append(@, udc_config.ingress_base_delay * 2^(g.retries + 1))]

\* the body of try: the token and the cluster id are fetched (either may
\* raise), the payload is posted (s.post may raise), and a response other than
\* 202 raises HTTPError; after an accepted response the body ends and the
\* loop condition is tested again
UploadTry(outcome) ==
    /\ gather.pc = "try"
    /\ gather' =
          CASE outcome = "accepted" ->
                  [gather EXCEPT !.pc = "while", !.response = Response(accepted), !.was_accepted = TRUE]
            [] outcome = "error response" ->
                  Failed([gather EXCEPT !.response = Response(500)])
            [] OTHER -> Failed(gather)
    /\ UNCHANGED <<udc_config, disk>>
    /\ UNCHANGED exceptCollector

\* logger.error("max retries reached, operation failed."); return response:
\* UnboundLocalError when no attempt got a response, and gather_ols_user_data
\* does not catch it
UploadReturn ==
    /\ gather.pc = "return"
    /\ gather' = IF gather.response = Unbound
                 THEN [gather EXCEPT !.pc = "raised", !.outcome = "UnboundLocalError"]
                 ELSE [gather EXCEPT !.pc = "delete"]
    /\ UNCHANGED <<udc_config, disk>>
    /\ UNCHANGED exceptCollector

\* delete_data(data_chunk); tarball.close(); the next chunk
GatherDelete ==
    /\ gather.pc = "delete"
    /\ disk' = [f \in DOMAIN disk \ {gather.chunks[gather.i][n] :
                                        n \in 1..Len(gather.chunks[gather.i])} |-> disk[f]]
    /\ gather' = [gather EXCEPT !.pc = "chunk", !.i = @ + 1]
    /\ UNCHANGED udc_config
    /\ UNCHANGED exceptCollector

\* ------------------------------------------------- streaming endpoint
MEDIA_TYPE_JSON == "application/json"
MEDIA_TYPE_TEXT == "text/plain"
MediaTypes == {MEDIA_TYPE_JSON, MEDIA_TYPE_TEXT}

\* the strings the generator yields
Tokens == {"a", "b"}
\* how the generator ends: with a SummarizerResponse as its last item, by
\* being exhausted, or by raising
SummarizerResponses ==
    [kind : {"SummarizerResponse"}, rag_chunks : {<<>>, <<"doc">>},
     history_truncated : BOOLEAN,
     token_counter : {[input_tokens |-> 1, output_tokens |-> 1]}]
Raised == {[kind |-> "PromptTooLongError"], [kind |-> "Exception"]}
Exhausted == [kind |-> "exhausted"]
Endings == SummarizerResponses \cup {Exhausted} \cup Raised
RECURSIVE TokensUpTo(_)
TokensUpTo(n) ==
    IF n = 0 THEN {<<>>}
    ELSE TokensUpTo(n - 1)
         \cup {Append(q, k) : q \in {r \in TokensUpTo(n - 1) : Len(r) = n - 1}, k \in Tokens}

\* stream_start_event(conversation_id)
stream_start_event(conversation_id) ==
    [event |-> "start", conversation_id |-> conversation_id]

\* build_yield_item(item, idx, media_type)
build_yield_item(item, idx, media_type) ==
    IF media_type = MEDIA_TYPE_TEXT
    THEN [text |-> item]
    ELSE [event |-> "token", id |-> idx, token |-> item]

\* prompt_too_long_error(error, media_type)
prompt_too_long_error(error, media_type) ==
    IF media_type = MEDIA_TYPE_TEXT
    THEN [text |-> <<"Prompt is too long", error>>]
    ELSE [event |-> "error", response |-> "Prompt is too long", cause |-> error]

\* generic_llm_error(error, media_type)
generic_llm_error(error, media_type) ==
    IF media_type = MEDIA_TYPE_TEXT
    THEN [text |-> <<"Oops, something went wrong during LLM invocation", error>>]
    ELSE [event |-> "error",
          response |-> "Oops, something went wrong during LLM invocation",
          cause |-> error]

\* stream_end_event(ref_docs, truncated, media_type, token_counter)
stream_end_event(ref_docs, truncated, media_type, token_counter) ==
    IF media_type = MEDIA_TYPE_JSON
    THEN [event |-> "end", referenced_documents |-> ref_docs, truncated |-> truncated,
          input_tokens |-> IF token_counter = <<>> THEN 0
                           ELSE token_counter[1].input_tokens,
          output_tokens |-> IF token_counter = <<>> THEN 0
                            ELSE token_counter[1].output_tokens]
    ELSE [text |-> ref_docs]

NoStream ==
    [pc |-> "idle", media_type |-> MEDIA_TYPE_JSON, conversation_id |-> <<>>,
     items |-> <<>>, ending |-> Exhausted, generator |-> <<>>,
     response |-> <<>>, rag_chunks |-> <<>>, history_truncated |-> FALSE,
     idx |-> 0, token_counter |-> <<>>, stored |-> <<>>, yielded |-> <<>>]

InitStream == stream = NoStream

\* response_processing_wrapper(generator, ..., conversation_id, ..., media_type, ...)
\* is called; the generator will yield items and then end with ending
WrapperCall(items, ending, conversation_id, media_type) ==
    /\ stream.pc \in {"idle", "returned", "raised"}
    /\ stream' = [NoStream EXCEPT !.pc = "start", !.media_type = media_type,
                                  !.conversation_id = conversation_id,
                                  !.items = items, !.ending = ending,
                                  !.generator = items]
    /\ UNCHANGED exceptStream

\* if media_type == constants.MEDIA_TYPE_JSON: yield stream_start_event(...);
\* response = ""; rag_chunks = []; history_truncated = False; idx = 0;
\* token_counter = None
WrapperStart ==
    /\ stream.pc = "start"
    /\ stream' = [stream EXCEPT
          !.pc = "for",
          !.yielded = IF stream.media_type = MEDIA_TYPE_JSON
                      THEN Append(@, stream_start_event(stream.conversation_id))
                      ELSE @]
    /\ UNCHANGED exceptStream

\* slip: idx is not incremented
WrapperItem_SameIdx ==
    /\ stream.pc = "for"
    /\ stream.generator # <<>>
    /\ LET item == Head(stream.generator)
       IN  stream' = [stream EXCEPT
              !.generator = Tail(@),
              !.response = Append(@, item),
              !.yielded = Append(@, build_yield_item(item, stream.idx, stream.media_type))]
    /\ UNCHANGED exceptStream

\* async for item in generator, item being a string: response += item;
\* yield build_yield_item(item, idx, media_type); idx += 1
WrapperItem ==
    /\ stream.pc = "for"
    /\ stream.generator # <<>>
    /\ LET item == Head(stream.generator)
       IN  stream' = [stream EXCEPT
              !.generator = Tail(@),
              !.response = Append(@, item),
              !.yielded = Append(@, build_yield_item(item, stream.idx, stream.media_type)),
              !.idx = @ + 1]
    /\ UNCHANGED exceptStream

\* the item is a SummarizerResponse: its fields are kept and the loop is
\* left by break; or the generator is exhausted and the loop ends
WrapperBreak ==
    /\ stream.pc = "for"
    /\ stream.generator = <<>>
    /\ stream.ending.kind \in {"SummarizerResponse", "exhausted"}
    /\ stream' = IF stream.ending.kind = "SummarizerResponse"
                 THEN [stream EXCEPT !.pc = "store_data",
                                     !.rag_chunks = stream.ending.rag_chunks,
                                     !.history_truncated = stream.ending.history_truncated,
                                     !.token_counter = <<stream.ending.token_counter>>]
                 ELSE [stream EXCEPT !.pc = "store_data"]
    /\ UNCHANGED exceptStream

\* except PromptTooLongError: yield prompt_too_long_error(...); return
\* except Exception: yield generic_llm_error(...); return
WrapperExcept ==
    /\ stream.pc = "for"
    /\ stream.generator = <<>>
    /\ stream.ending.kind \in {"PromptTooLongError", "Exception"}
    /\ stream' = [stream EXCEPT
          !.pc = "returned",
          !.yielded = Append(@, IF stream.ending.kind = "PromptTooLongError"
                                THEN prompt_too_long_error("error", stream.media_type)
                                ELSE generic_llm_error("error", stream.media_type))]
    /\ UNCHANGED exceptStream

\* store_data(user_id, conversation_id, llm_request, response, ...): the
\* conversation is stored, or the call raises and the wrapper is left by
\* the exception
WrapperStoreData(raises) ==
    /\ stream.pc = "store_data"
    /\ stream' = IF raises
                 THEN [stream EXCEPT !.pc = "raised"]
                 ELSE [stream EXCEPT !.pc = "end", !.stored = <<stream.response>>]
    /\ UNCHANGED exceptStream

\* build_referenced_docs(rag_chunks): the documents of the chunks
build_referenced_docs(rag_chunks) == rag_chunks

\* yield stream_end_event(build_referenced_docs(rag_chunks), history_truncated,
\* media_type, token_counter); the wrapper returns
WrapperEnd ==
    /\ stream.pc = "end"
    /\ stream' = [stream EXCEPT
          !.pc = "returned",
          !.yielded = Append(@, stream_end_event(build_referenced_docs(stream.rag_chunks),
                                                 stream.history_truncated,
                                                 stream.media_type, stream.token_counter))]
    /\ UNCHANGED exceptStream

\* InMemoryCache.initialize_cache
initialize_cache(max_entries) ==
    /\ capacity = max_entries
    /\ deque = <<>>
    /\ cache = <<>>

\* UserQuotaLimiter.__init__ on an empty database
InitQuota(quotas) ==
    /\ initial_quota \in quotas
    /\ increase_by = 1
    /\ quota = <<>>
    /\ qpc = [t \in Threads |-> "idle"]
    /\ qloc = [t \in Threads |-> NoQLoc]
    /\ qret = [t \in Threads |-> NoQRet]

InitCommon ==
    /\ recency = <<>>
    /\ appended = <<>>
    /\ lock = "free"
    /\ store = <<>>
    /\ redis_up = TRUE
    /\ rlock = "free"
    /\ pc = [t \in Threads |-> "idle"]
    /\ loc = [t \in Threads |-> NoLoc]
    /\ ret = [t \in Threads |-> NoRet]

Init ==
    /\ audit = TRUE
    /\ backend \in {"memory", "redis"}
    /\ \E max_entries \in 1..MaxEntries : initialize_cache(max_entries)
    /\ InitCommon
    /\ InitQuota({MaxQuota})
    /\ InitAdmission({None})
    /\ InitConsume({None}, {"None"})
    /\ InitCtor({Constructed})
    /\ InitCollector({MaxRetries}, {1}, {MaxSize})
    /\ InitStream

\* the in-memory backend, as the concurrent requests use it
InitConc ==
    /\ audit = FALSE
    /\ backend = "memory"
    /\ \E max_entries \in 1..MaxEntries : initialize_cache(max_entries)
    /\ InitCommon
    /\ InitQuota({MaxQuota})
    /\ InitAdmission({None})
    /\ InitConsume({None}, {"None"})
    /\ InitCtor({Constructed})
    /\ InitCollector({MaxRetries}, {1}, {MaxSize})
    /\ InitStream

\* the quota limiter, whatever its configured initial quota
InitLimiter ==
    /\ audit = FALSE
    /\ backend = "memory"
    /\ initialize_cache(MaxEntries)
    /\ InitCommon
    /\ InitQuota(1..MaxQuota)
    /\ InitAdmission({None})
    /\ InitConsume({None}, {"None"})
    /\ InitCtor({Constructed})
    /\ InitCollector({MaxRetries}, {1}, {MaxSize})
    /\ InitStream

MemStep(t, U, C, S) ==
    \/ \E u \in U, c \in C, s \in S : MemGetCall(t, u, c, s)
    \/ MemGetRemove(t)
    \/ MemGetAppendleft(t)
    \/ MemGetCopy(t)
    \/ \E u \in U, c \in C, s \in S : MemInsertCall(t, u, c, s)
    \/ MemInsertLock(t)
    \/ MemInsertLen(t)
    \/ MemInsertPop(t)
    \/ MemInsertDel(t)
    \/ MemInsertSet(t)
    \/ MemInsertRemove(t)
    \/ MemInsertAppend(t)
    \/ MemInsertAppendleft(t)
    \/ \E u \in U, c \in C, s \in S : MemDeleteCall(t, u, c, s)
    \/ MemDeleteLock(t)
    \/ MemDeleteDel(t)
    \/ MemDeleteRemove(t)
    \/ \E u \in U, s \in S : MemListCall(t, u, s)
    \/ MemListLock(t)

RedisStep(t, U, C, S, T) ==
    \/ \E u \in U, c \in C, s \in S : RedisGet(t, u, c, s)
    \/ \E u \in U, c \in C, ts \in T, s \in S :
          RedisInsertCall(t, u, c, ts, s)
    \/ RedisInsertLock(t)
    \/ RedisInsertRead(t)
    \/ RedisInsertWrite(t)
    \/ \E u \in U, c \in C, s \in S : RedisDelete(t, u, c, s)
    \/ \E u \in U, s \in S : RedisListCall(t, u, s)
    \/ RedisListFetch(t)

\* get and insert_or_append of the Redis backend
RedisAppendStep(t, U, C, S, T) ==
    \/ \E u \in U, c \in C, s \in S : RedisGet(t, u, c, s)
    \/ \E u \in U, c \in C, ts \in T, s \in S :
          RedisInsertCall(t, u, c, ts, s)
    \/ RedisInsertLock(t)
    \/ RedisInsertRead(t)
    \/ RedisInsertWrite(t)

\* one request at a time
Next ==
    \/ MemStep("t1", UserIds, ConvIds, BOOLEAN)
    \/ RedisStep("t1", UserIds, ConvIds, BOOLEAN, TopicSummaries)
Spec == Init /\ [][Next]_vars

\* both backends serving one request at a time, the in-memory one holding
\* a single conversation
InitOneEntry ==
    /\ audit = TRUE
    /\ backend \in {"memory", "redis"}
    /\ initialize_cache(1)
    /\ InitCommon
    /\ InitQuota({MaxQuota})
    /\ InitAdmission({None})
    /\ InitConsume({None}, {"None"})
    /\ InitCtor({Constructed})
    /\ InitCollector({MaxRetries}, {1}, {MaxSize})
    /\ InitStream
SpecOneEntry == InitOneEntry /\ [][Next]_vars

\* both backends serving one request at a time, the identifiers well-formed
NextWellFormed ==
    \/ MemStep("t1", {u \in UserIds : check_suid(u)}, ConcConvIds, {FALSE})
    \/ RedisStep("t1", {u \in UserIds : check_suid(u)}, ConcConvIds, {FALSE},
                 TopicSummaries)
SpecWellFormed == Init /\ [][NextWellFormed]_vars

\* requests served by concurrent threads
NextConc == \E t \in Threads : MemStep(t, ConcUserIds, ConcConvIds, {FALSE})
SpecConc == InitConc /\ [][NextConc]_vars

\* the Redis backend, as the threads of one process append to it
InitRedisConc ==
    /\ audit = TRUE
    /\ backend = "redis"
    /\ initialize_cache(MaxEntries)
    /\ InitCommon
    /\ InitQuota({MaxQuota})
    /\ InitAdmission({None})
    /\ InitConsume({None}, {"None"})
    /\ InitCtor({Constructed})
    /\ InitCollector({MaxRetries}, {1}, {MaxSize})
    /\ InitStream

NextRedisConc ==
    \E t \in Threads :
        RedisAppendStep(t, ConcUserIds, ConcConvIds, {FALSE}, TopicSummaries)
SpecRedisConc == InitRedisConc /\ [][NextRedisConc]_vars

\* the Redis backend, as the threads of one process append to a conversation
\* and delete it; histories stay bounded: no delete runs while an append
\* holds a record of MaxHist entries
NextRedisDelete ==
    \E t \in Threads :
        \/ \E u \in ConcUserIds, c \in ConcConvIds : RedisInsertCall(t, u, c, "s1", FALSE)
        \/ RedisInsertLock(t)
        \/ RedisInsertRead(t)
        \/ RedisInsertWrite(t)
        \/ /\ \A o \in Threads :
                 pc[o] = "rins_write" => Len(loc[o].old.history) < MaxHist
           /\ \E u \in ConcUserIds, c \in ConcConvIds : RedisDelete(t, u, c, FALSE)
SpecRedisDelete == InitRedisConc /\ [][NextRedisDelete]_vars

\* the in-memory backend serving one request at a time, the users known
InitMemSeq ==
    /\ audit = FALSE
    /\ backend = "memory"
    /\ \E max_entries \in 1..MaxEntries : initialize_cache(max_entries)
    /\ InitCommon
    /\ InitQuota({MaxQuota})
    /\ InitAdmission({None})
    /\ InitConsume({None}, {"None"})
    /\ InitCtor({Constructed})
    /\ InitCollector({MaxRetries}, {1}, {MaxSize})
    /\ InitStream

NextMemSeq == MemStep("t1", {u \in UserIds : check_suid(u)}, ConcConvIds, {FALSE})
SpecMemSeq == InitMemSeq /\ [][NextMemSeq]_vars

\* the in-memory backend constructed from whatever integer the configuration
\* object carries in max_entries: initialize_cache stores it as it is
MaxEntriesValues == {-1, 0} \cup 1..MaxEntries

InitAnyCapacity ==
    /\ audit = FALSE
    /\ backend = "memory"
    /\ \E max_entries \in MaxEntriesValues : initialize_cache(max_entries)
    /\ InitCommon
    /\ InitQuota({MaxQuota})
    /\ InitAdmission({None})
    /\ InitConsume({None}, {"None"})
    /\ InitCtor({Constructed})
    /\ InitCollector({MaxRetries}, {1}, {MaxSize})
    /\ InitStream

NextAnyCapacity == MemStep("t1", ConcUserIds, ConcConvIds, {FALSE})
SpecAnyCapacity == InitAnyCapacity /\ [][NextAnyCapacity]_vars

\* the Redis server or the connection to it fails: from now on every
\* redis_client command raises (redis.exceptions.RedisError)
RedisGoesDown ==
    /\ backend = "redis"
    /\ redis_up
    /\ redis_up' = FALSE
    /\ UNCHANGED exceptCache
    /\ UNCHANGED <<audit, backend, capacity, cache, deque, lock, store, rlock, pc, loc, ret, recency, appended>>

\* the Redis server answers again, holding what it held
RedisComesBack ==
    /\ backend = "redis"
    /\ ~redis_up
    /\ redis_up' = TRUE
    /\ UNCHANGED exceptCache
    /\ UNCHANGED <<audit, backend, capacity, cache, deque, lock, store, rlock, pc, loc, ret, recency, appended>>

\* the Redis backend serving one request at a time while the server comes
\* and goes
InitRedisFault ==
    /\ audit = FALSE
    /\ backend = "redis"
    /\ initialize_cache(MaxEntries)
    /\ InitCommon
    /\ InitQuota({MaxQuota})
    /\ InitAdmission({None})
    /\ InitConsume({None}, {"None"})
    /\ InitCtor({Constructed})
    /\ InitCollector({MaxRetries}, {1}, {MaxSize})
    /\ InitStream

NextRedisFault ==
    \/ RedisStep("t1", ConcUserIds, ConvIds, {FALSE}, TopicSummaries)
    \/ RedisGoesDown
    \/ RedisComesBack
SpecRedisFault == InitRedisFault /\ [][NextRedisFault]_vars

\* the Redis backend serving one request at a time, the calls passing
\* different topic summaries
NextRedisTopics ==
    RedisStep("t1", ConcUserIds, ConcConvIds, {FALSE}, TopicSummaries \cup {"s2"})
SpecRedisTopics == InitRedisFault /\ [][NextRedisTopics]_vars

\* request admission, whatever limiters are configured
InitAdmit ==
    /\ audit = FALSE
    /\ backend = "memory"
    /\ initialize_cache(MaxEntries)
    /\ InitCommon
    /\ InitQuota({MaxQuota})
    /\ InitAdmission(LimiterConfigs)
    /\ InitConsume({None}, {"None"})
    /\ InitCtor({Constructed})
    /\ InitCollector({MaxRetries}, {1}, {MaxSize})
    /\ InitStream

NextAdmit ==
    \/ \E user_id \in Subjects : CheckCall(user_id)
    \/ CheckLimiter
    \/ CheckReturn
SpecAdmit == InitAdmit /\ [][NextAdmit]_vars

\* post-response accounting, whatever limiters and recorder are configured
InitAccounting ==
    /\ audit = FALSE
    /\ backend = "memory"
    /\ initialize_cache(MaxEntries)
    /\ InitCommon
    /\ InitQuota({MaxQuota})
    /\ InitAdmission({None})
    /\ InitConsume(DebitedLimiters, Recorders)
    /\ InitCtor({Constructed})
    /\ InitCollector({MaxRetries}, {1}, {MaxSize})
    /\ InitStream

NextAccounting ==
    \/ \E user_id \in Subjects, input_tokens \in 0..MaxTokens, output_tokens \in 0..MaxTokens,
          provider \in Providers, model \in Models :
          ConsumeCall(user_id, input_tokens, output_tokens, provider, model)
    \/ ConsumeRecord
    \/ ConsumeDebit
    \/ ConsumeReturn
SpecAccounting == InitAccounting /\ [][NextAccounting]_vars

\* the construction of a UserQuotaLimiter, whatever the database does
InitConstruction ==
    /\ audit = FALSE
    /\ backend = "memory"
    /\ initialize_cache(MaxEntries)
    /\ InitCommon
    /\ InitQuota({MaxQuota})
    /\ InitAdmission({None})
    /\ InitConsume({None}, {"None"})
    /\ InitCtor({NotConstructed})
    /\ InitCollector({MaxRetries}, {1}, {MaxSize})
    /\ InitStream

NextConstruction ==
    \/ \E initial \in 0..MaxQuota, increase \in 0..MaxTokens : CtorCall(initial, increase)
    \/ \E outcome \in Outcomes : CtorConnect(outcome)
    \/ \E outcome \in Outcomes : CtorCursor(outcome)
    \/ \E outcome \in Outcomes : CtorExecute(outcome)
    \/ \E outcome \in Outcomes : CtorCursorClose(outcome)
    \/ \E outcome \in Outcomes : CtorCommit(outcome)
    \/ CtorExcept
SpecConstruction == InitConstruction /\ [][NextConstruction]_vars

\* the user data collector, whatever the ingress answers
InitGather ==
    /\ audit = FALSE
    /\ backend = "memory"
    /\ initialize_cache(MaxEntries)
    /\ InitCommon
    /\ InitQuota({MaxQuota})
    /\ InitAdmission({None})
    /\ InitConsume({None}, {"None"})
    /\ InitCtor({Constructed})
    /\ InitCollector(0..MaxRetries, 1..MaxDelay, 1..MaxSize)
    /\ InitStream

NextGather ==
    \/ GatherCall
    \/ GatherChunk
    \/ UploadWhile
    \/ \E outcome \in AttemptOutcomes : UploadTry(outcome)
    \/ UploadReturn
    \/ GatherDelete
SpecGather == InitGather /\ [][NextGather]_vars

\* the streaming endpoint, whatever the generator yields
InitStreaming ==
    /\ audit = FALSE
    /\ backend = "memory"
    /\ initialize_cache(MaxEntries)
    /\ InitCommon
    /\ InitQuota({MaxQuota})
    /\ InitAdmission({None})
    /\ InitConsume({None}, {"None"})
    /\ InitCtor({Constructed})
    /\ InitCollector({MaxRetries}, {1}, {MaxSize})
    /\ InitStream

NextStreaming ==
    \/ \E items \in TokensUpTo(MaxItems), ending \in Endings,
          conversation_id \in ConcConvIds, media_type \in MediaTypes :
          WrapperCall(items, ending, conversation_id, media_type)
    \/ WrapperStart
    \/ WrapperItem
    \/ WrapperBreak
    \/ WrapperExcept
    \/ \E raises \in BOOLEAN : WrapperStoreData(raises)
    \/ WrapperEnd
SpecStreaming == InitStreaming /\ [][NextStreaming]_vars

QStep(t) ==
    \/ \E u \in Subjects : QAvailableCall(t, u)
    \/ \E i \in 0..MaxTokens, o \in 0..MaxTokens, u \in Subjects : QConsumeCall(t, i, o, u)
    \/ QSelect(t)
    \/ QInit(t)
    \/ QUpdate(t)
    \/ \E u \in Subjects : QRevoke(t, u)
    \/ \E u \in Subjects : QIncrease(t, u)

\* the limiter serving one request at a time
NextQuotaSeq == QStep("t1")
SpecQuotaSeq == InitLimiter /\ [][NextQuotaSeq]_vars

\* the limiter serving concurrent requests
NextQuota == \E t \in Threads : QStep(t)
SpecQuota == InitLimiter /\ [][NextQuota]_vars

TypeOK ==
    /\ capacity \in 1..MaxEntries
    /\ lock \in Threads \cup {"free"}

\* =================================================================== claims
\* what is stored, whichever backend is configured
HeldKeys == IF backend = "memory" THEN DOMAIN cache ELSE DOMAIN store
EntriesOf(key) ==
    IF backend = "memory" THEN FromDicts(cache[key])
    ELSE json_loads(store[key]).history
\* the conversation ids a completed list call returned
ListedIds(r) ==
    IF backend = "memory" THEN r.ids ELSE {x.conversation_id : x \in r.convs}
Bodies(entries) == [i \in 1..Len(entries) |-> entries[i].body]
ValidUserIds == {u \in UserIds : check_suid(u)}

C1_Witness ==
    /\ backend = "memory"
    /\ ret["t1"].op = "list" /\ ret["t1"].status = "ok"
    /\ ret["t1"].user = <<"a">>
    /\ ret["t1"].ids = {<<"a">>}
    /\ DOMAIN cache = {construct_key(<<"a">>, <<"a">>), construct_key(<<"b">>, <<"a">>)}

C3_NeverNegative == \A u \in DOMAIN quota : quota[u] >= 0

\* the keys in the order of their last completed access, newest first
AccessedKeys == {recency[i] : i \in 1..Len(recency)}

\* C4: in the in-memory backend, an insert_or_append for a key that is not
\* held while capacity conversations are held evicts exactly one conversation,
\* the one whose last access (insert_or_append or successful get) is the
\* oldest, and with another key held the key accessed last is kept; below
\* capacity nothing is evicted.
C4_EvictsLeastRecent ==
    /\ (backend = "memory" /\ pc["t1"] = "idle") =>
          /\ AccessedKeys = DOMAIN cache
          /\ Len(recency) = Cardinality(DOMAIN cache)
    /\ (pc["t1"] = "ins_appendleft" /\ loc["t1"].fresh) =>
          IF Len(recency) = capacity
          THEN /\ loc["t1"].oldest = recency[Len(recency)]
               /\ DOMAIN cache = (AccessedKeys \ {loc["t1"].oldest}) \cup {loc["t1"].key}
               /\ Cardinality(DOMAIN cache) = capacity
               /\ capacity > 1 => recency[1] \in DOMAIN cache
          ELSE /\ loc["t1"].oldest = NoKey
               /\ DOMAIN cache = AccessedKeys \cup {loc["t1"].key}

\* capacity 2, both slots taken: the insert of a third key has evicted the
\* key accessed least recently and kept the other one
C4_Witness ==
    /\ capacity = 2
    /\ pc["t1"] = "ins_appendleft" /\ loc["t1"].fresh
    /\ Len(recency) = 2
    /\ loc["t1"].oldest = recency[2]
    /\ DOMAIN cache = {recency[1], loc["t1"].key}

\* C5: in the in-memory backend the number of conversations held never
\* exceeds the configured capacity, in any reachable state of any interleaving
\* of concurrent get, insert_or_append, delete and list calls.
C5_WithinCapacity == Cardinality(DOMAIN cache) <= capacity

\* how often key occurs in the deque
Occurrences(key) == Cardinality({i \in 1..Len(deque) : deque[i] = key})
\* the positions where a thread is inside the check-and-update of a call
UpdatePcs ==
    {"get_remove", "get_appendleft", "get_copy",
     "ins_len", "ins_pop", "ins_del", "ins_set", "ins_remove", "ins_append",
     "ins_appendleft", "del_del", "del_remove"}
Updating(t) == pc[t] \in UpdatePcs

\* C6: in every state where no call is part-way through its update, the deque
\* contains each key of the cache exactly once and no key that is absent from
\* the cache, after any interleaving of concurrent calls.
C6_DequeMatchesCache ==
    (\A t \in Threads : ~Updating(t)) =>
        /\ \A key \in DOMAIN cache : Occurrences(key) = 1
        /\ \A i \in 1..Len(deque) : deque[i] \in DOMAIN cache

\* C7: insert_or_append, delete and the promotion step of get run their
\* check-and-update while holding the cache lock, so no two threads are inside
\* such a section at the same time.
C7_MutualExclusion ==
    /\ \A t \in Threads : Updating(t) => lock = t
    /\ \A t \in Threads, o \in Threads : (Updating(t) /\ Updating(o)) => t = o

\* C8: after N insert_or_append calls on a key with no delete or eviction of
\* that key in between, the stored history of the key is exactly those N
\* entries in call order, whatever was done to other keys meanwhile, and a
\* completed get returns exactly that history (both backends).
C8_AppendsInOrder ==
    /\ pc["t1"] = "idle" =>
          /\ HeldKeys = DOMAIN appended
          /\ \A key \in HeldKeys :
                /\ Bodies(EntriesOf(key)) = appended[key]
                /\ \A i \in 1..Len(appended[key]) : appended[key][i] = i
    /\ LET r == ret["t1"] IN
       (r.op = "get" /\ r.status = "ok" /\ r.found) =>
           /\ construct_key(r.user, r.conv) \in DOMAIN appended
           /\ Bodies(r.entries) = appended[construct_key(r.user, r.conv)]

\* get returned the two entries appended to a key while a second key, written
\* in between, is held as well
C8_Witness ==
    /\ ret["t1"].op = "get" /\ ret["t1"].status = "ok" /\ ret["t1"].found
    /\ Bodies(ret["t1"].entries) = <<1, 2>>
    /\ Cardinality(HeldKeys) = 2
    /\ \A key \in HeldKeys : Len(EntriesOf(key)) = 2

\* what C9 asks of one step of the cache
C9_Step ==
    LET r == ret'["t1"]
        key == construct_key(r.user, r.conv)
        wellFormed == r.user \in ValidUserIds /\ check_suid(r.conv)
    IN  /\ (r.op = "delete" /\ wellFormed) =>
              /\ r.status = "ok"
              /\ r.found = (key \in DOMAIN appended)
              /\ HeldKeys' = (DOMAIN appended) \ {key}
              /\ ~InSeq(deque', key)
              /\ key \notin DOMAIN appended => UNCHANGED <<cache, deque, store>>
        /\ (r.op = "get" /\ r.status = "ok" /\ wellFormed) =>
              r.found = (key \in DOMAIN appended)
        /\ (r.op = "list" /\ r.status = "ok" /\ r.user \in ValidUserIds) =>
              \A c \in ConvIds :
                 check_suid(c) =>
                    (c \in ListedIds(r) <=> construct_key(r.user, c) \in DOMAIN appended)

\* C9: delete(u, c) on a key with no record returns False, raises nothing and
\* changes nothing; on a key with a record it returns True and removes the
\* record and, in memory, its deque entry; get finds and list names exactly
\* the keys inserted and not deleted or evicted since, so after a delete get
\* gives not-found, list lacks c and a second delete returns False
\* (appended holds the keys inserted and not since deleted or evicted).
C9_Delete == [][C9_Step]_vars

\* delete returned True for one of two held conversations and the other one
\* is still held
C9_Witness ==
    /\ ret["t1"].op = "delete" /\ ret["t1"].status = "ok" /\ ret["t1"].found
    /\ construct_key(ret["t1"].user, ret["t1"].conv) \notin HeldKeys
    /\ Cardinality(HeldKeys) = 1

\* what available_quota gives for a subject: the stored value, or the initial
\* quota that the first access stores
Available(table, user_id) ==
    IF user_id \in DOMAIN table THEN table[user_id] ELSE initial_quota

\* the step in which a consume_tokens call that asks for more than is
\* available comes to its end
C10_Refused ==
    /\ qloc["t1"].op = "consume_tokens"
    /\ qpc["t1"] # "idle" /\ qpc'["t1"] = "idle"
    /\ qloc["t1"].to_be_consumed > Available(quota, qloc["t1"].user_id)

C10_Step ==
    C10_Refused =>
        /\ qret'["t1"].error =
              [type |-> "QuotaExceedError",
               subject_id |-> qloc["t1"].user_id,
               available |-> Available(quota, qloc["t1"].user_id),
               needed |-> qloc["t1"].to_be_consumed]
        /\ \A u \in Subjects : Available(quota', u) = Available(quota, u)

\* C10: consume_tokens(subject, input, output) with input + output greater
\* than the available quota of the subject ends with the quota-exceeded error
\* that carries the subject id, the available amount and the needed amount,
\* and the available quota of every subject is what it was before the call.
C10_QuotaExceeded == [][C10_Step]_vars

\* the step in which the call op of the limiter comes to its end
QCallEnds(op) ==
    /\ qloc["t1"].op = op
    /\ qpc["t1"] # "idle" /\ qpc'["t1"] = "idle"
\* the available quota of every subject but user_id is what it was
OthersKeep(user_id) ==
    \A u \in Subjects \ {user_id} : Available(quota', u) = Available(quota, u)

C11_Step ==
    LET user_id == qloc["t1"].user_id
        needed == qloc["t1"].to_be_consumed
    IN  /\ QCallEnds("consume_tokens") =>
              /\ (qret'["t1"].error = NoError) <=> (needed <= Available(quota, user_id))
              /\ qret'["t1"].error = NoError =>
                    /\ user_id \in DOMAIN quota'
                    /\ quota'[user_id] = Available(quota, user_id) - needed
              /\ OthersKeep(user_id)
        /\ (qloc["t1"].op = "consume_tokens" /\ qpc'["t1"] # "idle") =>
              \A u \in Subjects : Available(quota', u) = Available(quota, u)

C12_Step ==
    LET user_id == qloc["t1"].user_id IN
    /\ QCallEnds("available_quota") =>
          /\ qret'["t1"].error = NoError
          /\ qret'["t1"].value = Available(quota, user_id)
          /\ user_id \in DOMAIN quota'
          /\ quota'[user_id] = Available(quota, user_id)
          /\ user_id \notin DOMAIN quota => qret'["t1"].value = initial_quota
          /\ user_id \in DOMAIN quota => quota' = quota
          /\ OthersKeep(user_id)
    /\ (qloc["t1"].op = "available_quota" /\ qpc'["t1"] # "idle") => quota' = quota

\* C12: available_quota(subject) for a subject with no row stores a row with
\* the initial quota and returns that amount without failing; for a subject
\* with a row it returns the stored amount and changes nothing.
C12_LazyInit == [][C12_Step]_vars

\* the first access of a subject returned the initial quota and stored it,
\* beside the row of a subject that has consumed tokens
C12_Witness ==
    LET r == qret["t1"] IN
    /\ r.op = "available_quota" /\ r.error = NoError
    /\ r.value = initial_quota
    /\ DOMAIN quota = Subjects
    /\ quota[r.user_id] = initial_quota
    /\ \A u \in Subjects \ {r.user_id} : quota[u] < initial_quota

\* a step of revoke_quota or increase_quota: each is one UPDATE statement
QDone(op) == qpc["t1"] = "idle" /\ qpc'["t1"] = "idle" /\ qret'["t1"].op = op

C16_Step ==
    QDone("revoke_quota") =>
        /\ Available(quota', qret'["t1"].user_id) = initial_quota
        /\ OthersKeep(qret'["t1"].user_id)
        /\ qret'["t1"].error = NoError

\* C16: after revoke_quota(subject) the available quota of the subject is the
\* initial quota, whatever it was before and also when the subject has no row
\* yet; the quota of every other subject is unchanged.
C16_RevokeResets == [][C16_Step]_vars

\* revoke_quota gave a subject its initial quota back while the other subject
\* stays at a lower quota of its own
C16_Witness ==
    LET r == qret["t1"] IN
    /\ r.op = "revoke_quota"
    /\ DOMAIN quota = Subjects
    /\ quota[r.user_id] = initial_quota
    /\ \A u \in Subjects \ {r.user_id} : quota[u] < initial_quota

C17_Step ==
    QDone("increase_quota") =>
        /\ Available(quota', qret'["t1"].user_id) =
              Available(quota, qret'["t1"].user_id) + increase_by
        /\ OthersKeep(qret'["t1"].user_id)

\* C17: increase_quota(subject) raises the available quota of the subject by
\* exactly increase_by, for every subject including one that was never
\* accessed before, whose next available_quota is then the initial quota plus
\* increase_by; the quota of every other subject is unchanged.
C17_IncreaseAdds == [][C17_Step]_vars

\* the positions inside the read-modify-write of RedisCache.insert_or_append
Appending(t) == pc[t] \in {"rins_read", "rins_write"}

\* C13: in the Redis backend, under any interleaving of concurrent
\* insert_or_append calls of the threads of one process, the read, the append
\* and the write-back of one call never overlap those of another call (they
\* run under the lock), and the stored history of every key is the sequence
\* of the entries whose insert_or_append has written, each exactly once.
C13_NoLostAppend ==
    /\ \A t \in Threads : Appending(t) => rlock = t
    /\ \A t \in Threads, o \in Threads : (Appending(t) /\ Appending(o)) => t = o
    /\ DOMAIN store = DOMAIN appended
    /\ \A key \in DOMAIN store :
          Bodies(json_loads(store[key]).history) = appended[key]

\* both threads have appended to the same key, one call started before the
\* other had written, and the key holds both entries
C13_Witness ==
    /\ \A t \in Threads :
          /\ ret[t].op = "insert" /\ ret[t].status = "ok"
          /\ ret[t].conv = <<"a">>
    /\ Len(json_loads(store[construct_key(<<"a">>, <<"a">>)]).history) = 2
    /\ Bodies(json_loads(store[construct_key(<<"a">>, <<"a">>)]).history) = <<1, 1>>

\* the pair of ids a stored key was built from, as its first entry records it
BuiltFrom(key) == EntriesOf(key)[1].by
HasSeparator(id) == \E i \in 1..Len(id) : <<id[i]>> = COMPOUND_KEY_SEPARATOR

InvalidCall(r) ==
    /\ r.op \in {"get", "insert", "delete", "list"}
    /\ \/ ~(r.skip \/ check_suid(r.user))
       \/ r.op # "list" /\ ~check_suid(r.conv)

C15_Step ==
    InvalidCall(ret'["t1"]) =>
        /\ ret'["t1"].status = "ValueError"
        /\ UNCHANGED <<cache, deque, store, recency>>

CallMoves == <<pc["t1"], loc["t1"], ret["t1"]>>' # <<pc["t1"], loc["t1"], ret["t1"]>>

C18_Step ==
    (~redis_up /\ CallMoves) =>
        /\ store' = store
        /\ \/ /\ ret'["t1"].status = "RedisError"
              /\ pc'["t1"] = "idle"
              /\ ~ret'["t1"].found /\ ret'["t1"].entries = <<>> /\ ret'["t1"].convs = {}
           \/ ret'["t1"].status = "ValueError"
           \/ pc'["t1"] = "rins_lock"
           \/ pc["t1"] = "rins_lock" /\ pc'["t1"] = "rins_read"
           \/ pc["t1"] = "rlist_fetch" /\ loc["t1"].keys = {}

C18_ErrorPropagates == [][C18_Step]_vars

\* an insert_or_append that had read the stored conversation lost the server
\* before its write and ended with the error
C18_Witness ==
    /\ ~redis_up
    /\ ret["t1"].op = "insert"
    /\ ret["t1"].status = "RedisError"
    /\ construct_key(ret["t1"].user, ret["t1"].conv) \in DOMAIN store
    /\ rlock = "free"

\* C19: an in-memory backend constructed with capacity 0 or a negative
\* capacity is refused at construction, so no cache with such a capacity ever
\* takes a call: none is in progress on it and none has completed on it.
C19_NoCacheWithoutCapacity ==
    capacity < 1 =>
        \A t \in Threads : pc[t] = "idle" /\ ret[t].op = "none"

\* C20: check_tokens_available(limiters, subject) calls the pre-check of the
\* configured limiters one after another with that subject.  When none of
\* them raises, every limiter was asked exactly once and the call returns:
\* the request is admitted; so it is with no limiters, None or an empty list.
\* When one raises, the call ends with a single HTTPException whose response
\* is 'The quota has been exceeded' and whose cause is the message of the
\* limiter that raised, and the request is not admitted.
Raising(limiters) == {i \in 1..Len(limiters) : limiters[i].raises}
First(S) == CHOOSE i \in S : \A j \in S : i <= j
AskedUpTo(n) == [i \in 1..n |-> [limiter |-> i, subject_id |-> asubject]]

C20_WitnessNone ==
    /\ quota_limiters = None
    /\ admission = Admitted

\* C21: an aggregate consume_tokens that returns has debited every configured
\* limiter exactly once, with the subject and the token counts it was called
\* with: each limiter's available quota of the subject is lower by input +
\* output and no other subject's changed.  It has recorded the usage exactly
\* once when a usage-history recorder is configured, and not at all
\* otherwise.  With no limiters (None or an empty list) and no recorder it
\* returns and has changed nothing.
Usable(limiter, user_id) == available_quota(limiter, user_id).value
Charged == cons.args.input_tokens + cons.args.output_tokens
DebitOf(i) == [limiter |-> i, user_id |-> cons.args.user_id,
               input_tokens |-> cons.args.input_tokens,
               output_tokens |-> cons.args.output_tokens]

C21_DebitsEveryLimiter ==
    (cons.pc = "idle" /\ cons.outcome = "returned") =>
        LET now == Configured(budget_limiters)
            was == Configured(cons.before)
        IN  /\ Len(now) = Len(was)
            /\ cons.debits = [i \in 1..Len(now) |-> DebitOf(i)]
            /\ \A i \in 1..Len(now) :
                  /\ Usable(now[i], cons.args.user_id) = Usable(was[i], cons.args.user_id) - Charged
                  /\ \A u \in Subjects \ {cons.args.user_id} : Usable(now[i], u) = Usable(was[i], u)
            /\ cons.recorded = IF token_usage_history = "None" THEN <<>> ELSE <<cons.args>>
            /\ (Len(now) = 0 /\ token_usage_history = "None") => budget_limiters = cons.before

\* two limiters and a recorder are configured, both limiters hold a row of
\* another subject, and a call that consumed tokens returned
C21_Witness ==
    /\ cons.pc = "idle" /\ cons.outcome = "returned"
    /\ Len(Configured(budget_limiters)) = 2
    /\ token_usage_history # "None"
    /\ Charged > 0
    /\ \A i \in 1..2 : DOMAIN Configured(budget_limiters)[i].quota = Subjects

\* C22: when the aggregate consume_tokens runs over two limiters and the
\* second one rejects after the first has debited, the call fails and the
\* debit of the first limiter is kept: its available quota of the subject
\* stays lower by input + output.
SecondRejected ==
    /\ cons.pc = "idle" /\ cons.outcome = "raised"
    /\ Len(Configured(cons.before)) = 2
    /\ Len(cons.debits) = 1

C22_NoRollback ==
    SecondRejected =>
        /\ cons.debits = <<DebitOf(1)>>
        /\ Usable(Configured(budget_limiters)[1], cons.args.user_id) =
              Usable(Configured(cons.before)[1], cons.args.user_id) - Charged
        /\ Usable(Configured(budget_limiters)[2], cons.args.user_id) =
              Usable(Configured(cons.before)[2], cons.args.user_id)

\* the second of two limiters rejected a call that asked for tokens
C22_Witness == SecondRejected /\ Charged > 0

\* C23: in the in-memory backend, insert_or_append removes a conversation only
\* when its key is new and exactly capacity conversations are held, and then
\* only one; appending to a held key, or inserting a new key while fewer than
\* capacity are held, removes none.  Whatever it does, every other
\* conversation that stays keeps its entries.
C23_Step ==
    (loc["t1"].op = "insert" /\ cache' # cache) =>
        LET key == loc["t1"].key
            evicted == DOMAIN cache \ DOMAIN cache'
        IN  /\ \A k \in (DOMAIN cache \cap DOMAIN cache') \ {key} : cache'[k] = cache[k]
            /\ Cardinality(evicted) <= 1
            /\ key \notin evicted
            /\ evicted # {} =>
                  /\ loc["t1"].fresh
                  /\ Cardinality(DOMAIN cache) = capacity

C23_EvictsOnlyWhenFull == [][C23_Step]_vars

\* a new key was inserted while one conversation fewer than capacity was held,
\* and nothing was evicted
C23_Witness ==
    /\ capacity = 2
    /\ ret["t1"].op = "insert" /\ ret["t1"].status = "ok"
    /\ ret["t1"].evicted = NoKey
    /\ Cardinality(DOMAIN cache) = 2
    /\ Len(cache[deque[1]]) = 1

\* C24: when a statement of the table initialization fails while a
\* UserQuotaLimiter is being constructed, the connection that was opened is
\* closed exactly once, the constructor raises the error that statement
\* raised, and it does not return a limiter.
C24_ClosedOnce ==
    /\ ctor.pc = "except" => (ctor.connection = "open" /\ ctor.closes = 0)
    /\ (ctor.pc \in {"raised", "done"} /\ ctor.caught # "none") =>
          /\ ctor.pc = "raised"
          /\ ctor.raised = ctor.caught
          /\ ctor.connection = "closed"
          /\ ctor.closes = 1
    /\ ctor.pc = "done" => (ctor.connection = "open" /\ ctor.closes = 0 /\ ctor.table)

\* CREATE TABLE failed and the constructor has raised
C24_Witness ==
    /\ ctor.pc = "raised"
    /\ ctor.failed = "execute"
    /\ ctor.caught = "Exception during PostgreSQL storage."

\* C25: upload_data_to_ingress makes no further attempt once an attempt was
\* accepted with HTTP 202, gives up after ingress_max_retries failed attempts,
\* and after the n-th failure sleeps ingress_base_delay * 2^n.
C25_StopsAtFirstAccepted ==
    /\ gather.pc = "try" => ~gather.was_accepted
    /\ Len(gather.slept) <= udc_config.ingress_max_retries
    /\ \A n \in 1..Len(gather.slept) :
          gather.slept[n] = udc_config.ingress_base_delay * 2^n

\* C27: a step of gather_ols_user_data removes files from the disk only when
\* an upload attempt for their chunk was accepted by the ingress.
C27_Step == disk' # disk => gather.was_accepted
C27_DeletesOnlyUploaded == [][C27_Step]_vars

\* C26: for media type JSON the wrapper yields the start event first, then
\* one token event per string of the generator, numbered 0, 1, 2, ... in the
\* order of generation, and then one final event with which it returns: the
\* end event when the generator finished, yielded after the conversation was
\* stored, or an error event when the generator raised.
IsFinal(e) == e.event \in {"end", "error"}
C26_WitnessError ==
    /\ stream.pc = "returned"
    /\ stream.media_type = MEDIA_TYPE_JSON
    /\ Len(stream.items) = 1
    /\ stream.yielded[3].event = "error"

\* C28: when concurrent callers make the first access for a subject, the
\* record is created once with the initial allotment and no call fails
\* because another call created the record first.
C28_FirstAccessRace ==
    \A t \in Threads : qret[t].error.type # "UniqueViolation"

\* C29: once no call is in progress, every stored record holds exactly the
\* entries appended to its key since the key was last deleted: a delete is
\* not undone by an insert_or_append that was in progress when it ran.
C29_DeleteNotUndone ==
    (\A t \in Threads : pc[t] = "idle") =>
        /\ DOMAIN store = DOMAIN appended
        /\ \A key \in DOMAIN store :
              Bodies(json_loads(store[key]).history) = appended[key]

\* C30: a record gets its topic summary from the insert_or_append call that
\* creates it, no later step changes the topic summary of a record that
\* stays stored, and list returns the stored topic summary of every
\* conversation of the user.
TopicOf(key) == json_loads(store[key]).topic_summary
C30_Step ==
    /\ \A key \in DOMAIN store \cap DOMAIN store' :
          json_loads(store'[key]).topic_summary = TopicOf(key)
    /\ \A key \in DOMAIN store' \ DOMAIN store :
          /\ pc["t1"] = "rins_write" /\ loc["t1"].key = key
          /\ json_loads(store'[key]).topic_summary = loc["t1"].topic
    /\ (pc["t1"] = "rlist_fetch" /\ pc'["t1"] = "idle" /\ ret'["t1"].status = "ok") =>
          ret'["t1"].convs =
             {[conversation_id |-> c, topic_summary |-> TopicOf(construct_key(ret'["t1"].user, c))] :
                 c \in {d \in ConcConvIds : construct_key(ret'["t1"].user, d) \in DOMAIN store}}
C30_TopicSummaryKept == [][C30_Step]_vars
\* a call that passed another topic summary has appended to a record, and
\* the record still has the summary it was created with
C30_Witness ==
    /\ ret["t1"].op = "insert" /\ ret["t1"].status = "ok" /\ ret["t1"].topic = "s2"
    /\ Len(json_loads(store[construct_key(ret["t1"].user, ret["t1"].conv)]).history) = 2
    /\ TopicOf(construct_key(ret["t1"].user, ret["t1"].conv)) = "s1"
\* list returned the summary the record was created with, not the one of
\* the last call
C30_WitnessList ==
    /\ ret["t1"].op = "list" /\ ret["t1"].status = "ok"
    /\ \E x \in ret["t1"].convs :
          /\ x.topic_summary = "s1"
          /\ Len(json_loads(store[construct_key(ret["t1"].user, x.conversation_id)]).history) = 2
    /\ \E x \in ret["t1"].convs :
          /\ x.topic_summary = "s2"
          /\ Len(json_loads(store[construct_key(ret["t1"].user, x.conversation_id)]).history) = 2

====
